---- MODULE Spec2Model ----
(***************************************************************************)
(* Model of my-companion v2: the response cache (core/response_cache.py),  *)
(* the agent's ask_question pipeline (core/agent.py), the profile save     *)
(* hook (utils/data_store.py) and the vector index (core/vector_db.py).    *)
(*                                                                         *)
(* Python strings are modelled as sequences of one-character strings, so   *)
(* that lower(), strip(), replace(), `in` and startswith() are computed    *)
(* the way the interpreter computes them.                                  *)
(***************************************************************************)
EXTENDS Integers, Sequences, FiniteSets, TLC

\* ------------------------------------------------------------------ bounds
\* ResponseCache(max_cache_size=...), scaled down from the default.
MaxCacheSize == 1
\* The clock advances TickHours at a time, MaxTicks times.
MaxTicks == 3
\* hit_count stops being incremented here.
MaxHits == 1

\* ------------------------------------------------- python str operations
Whitespace == {" ", "\t", "\n"}

UpperCase == <<"A","B","C","D","E","F","G","H","I","J","K","L","M",
               "N","O","P","Q","R","S","T","U","V","W","X","Y","Z">>

LowerCase == <<"a","b","c","d","e","f","g","h","i","j","k","l","m",
               "n","o","p","q","r","s","t","u","v","w","x","y","z">>

\* the lower-case letter of each upper-case letter
LowerOf ==
  [c \in {UpperCase[i] : i \in DOMAIN UpperCase} |->
     LowerCase[CHOOSE i \in DOMAIN UpperCase : UpperCase[i] = c]] @@ <<>>

lower_char(c) ==
  IF c \in DOMAIN LowerOf
  THEN LowerOf[c]
  ELSE c

\* str.lower()
lower(s) == SubSeq([i \in 1..Len(s) |-> lower_char(s[i])], 1, Len(s))

RECURSIVE lstrip(_)
lstrip(s) == IF s # <<>> /\ Head(s) \in Whitespace THEN lstrip(Tail(s)) ELSE s

RECURSIVE rstrip(_)
rstrip(s) ==
  IF s # <<>> /\ s[Len(s)] \in Whitespace
  THEN rstrip(SubSeq(s, 1, Len(s) - 1))
  ELSE s

\* str.strip()
strip(s) == rstrip(lstrip(s))

\* str.startswith(prefix)
startswith(s, prefix) ==
  Len(prefix) <= Len(s) /\ SubSeq(s, 1, Len(prefix)) = prefix

\* `sub in s` for strings
str_in(sub, s) ==
  \E i \in 0..(Len(s) - Len(sub)) : SubSeq(s, i + 1, i + Len(sub)) = sub

\* str.replace(old, new): non-overlapping occurrences, left to right
RECURSIVE replace(_, _, _)
replace(s, old, new) ==
  IF Len(s) < Len(old) THEN s
  ELSE IF SubSeq(s, 1, Len(old)) = old
       THEN new \o replace(SubSeq(s, Len(old) + 1, Len(s)), old, new)
       ELSE <<Head(s)>> \o replace(Tail(s), old, new)

\* str.split(): the maximal runs of non-whitespace characters
RECURSIVE split(_)
split(s) ==
  LET t == lstrip(s) IN
  IF t = <<>> THEN <<>>
  ELSE LET stops == {i \in 1..Len(t) : t[i] \in Whitespace}
           n == IF stops = {} THEN Len(t) + 1
                ELSE CHOOSE i \in stops : \A j \in stops : i <= j
       IN <<SubSeq(t, 1, n - 1)>> \o split(SubSeq(t, n, Len(t)))

\* sep.join(words)
RECURSIVE join(_, _)
join(sep, words) ==
  IF words = <<>> THEN <<>>
  ELSE IF Len(words) = 1 THEN words[1]
  ELSE words[1] \o sep \o join(sep, Tail(words))

\* any(keyword in text for keyword in keywords)
any_in(keywords, text) == \E k \in keywords : str_in(k, text)

\* -------------------------------------------------- response_cache.py
\* self.cacheable_types
cacheable_types ==
  {"profile_analysis", "career_suggestions", "project_ideas",
   "skill_analysis", "technical_question", "project_specific_question",
   "general_question"}

\* self.non_cacheable_keywords
non_cacheable_keywords ==
  {<<"t","o","d","a","y">>,
      <<"n","o","w">>,
      <<"l","a","t","e","s","t"," ","n","e","w","s">>,
      <<"r","e","c","e","n","t"," ","u","p","d","a","t","e">>,
      <<"r","i","g","h","t"," ","n","o","w">>,
      <<"t","h","i","s"," ","m","o","m","e","n","t">>}

\* profile_keywords of _is_cacheable
profile_keywords ==
  {<<"p","r","o","f","i","l","e">>,
      <<"e","x","p","e","r","i","e","n","c","e">>,
      <<"s","k","i","l","l","s">>,
      <<"p","r","o","j","e","c","t">>,
      <<"w","o","r","k">>,
      <<"b","a","c","k","g","r","o","u","n","d">>,
      <<"a","b","o","u","t"," ","m","e">>,
      <<"m","y">>}

\* the keys of `replacements` in _normalize_question, in dict order (every
\* value is the empty string)
replacements ==
  <<<<"c","a","n"," ","y","o","u"," ">>,
      <<"c","o","u","l","d"," ","y","o","u"," ">>,
      <<"p","l","e","a","s","e"," ">>,
      <<"w","o","u","l","d"," ","y","o","u"," ">>,
      <<"?">>,
      <<".">>,
      <<"m","y"," ">>,
      <<"t","h","e"," ">>,
      <<"a"," ">>,
      <<"a","n"," ">>>>

\* ResponseCache(cache_ttl_hours=24)
cache_ttl_hours == 24
\* half a TTL: entries are seen younger than, as old as and older than the TTL
TickHours == 12
MinQuestionLen == 10
MaxQuestionLen == 500
MinResponseLen == 20

STR_error == <<"e","r","r","o","r">>
STR_sorry == <<"s","o","r","r","y">>
STR_space == <<" ">>

RECURSIVE apply_replacements(_, _)
apply_replacements(question, olds) ==
  IF olds = <<>> THEN question
  ELSE apply_replacements(replace(question, Head(olds), <<>>), Tail(olds))

_normalize_question(question) ==
  join(STR_space, split(apply_replacements(strip(lower(question)), replacements)))

\* _is_cacheable without its check of the time-sensitive phrases
_is_cacheable_no_blocklist(question, query_type) ==
  IF query_type \notin cacheable_types THEN FALSE
  ELSE IF query_type = "general_question"
          /\ ~any_in(profile_keywords, lower(question)) THEN FALSE
  ELSE IF Len(strip(question)) < MinQuestionLen
          \/ Len(strip(question)) > MaxQuestionLen THEN FALSE
  ELSE TRUE

_is_cacheable(question, query_type) ==
  IF query_type \notin cacheable_types THEN FALSE
  ELSE IF query_type = "general_question"
          /\ ~any_in(profile_keywords, lower(question)) THEN FALSE
  ELSE IF any_in(non_cacheable_keywords, lower(question)) THEN FALSE
  ELSE IF Len(strip(question)) < MinQuestionLen
          \/ Len(strip(question)) > MaxQuestionLen THEN FALSE
  ELSE TRUE

\* response_rejected without its test for "error"
response_rejected_no_error(response) ==
  \/ Len(strip(response)) < MinResponseLen
  \/ startswith(lower(response), STR_sorry)

\* the test of cache_response on the response (line 186)
response_rejected(response) ==
  \/ Len(strip(response)) < MinResponseLen
  \/ str_in(STR_error, lower(response))
  \/ startswith(lower(response), STR_sorry)
\* ------------------------------------------------- query type detection
\* the keyword lists of PromptTemplates.detect_query_type, in its order
detect_keywords ==
  <<[query_type |-> "technical_question",
     words |-> {<<"w","h","a","t"," ","p","r","o","g","r","a","m","m","i","n","g">>,
               <<"w","h","a","t"," ","l","a","n","g","u","a","g","e">>,
               <<"w","h","a","t"," ","f","r","a","m","e","w","o","r","k">>,
               <<"w","h","a","t"," ","t","e","c","h","n","o","l","o","g","y">>,
               <<"w","h","i","c","h"," ","t","e","c","h">>,
               <<"d","o"," ","i"," ","k","n","o","w">>,
               <<"e","x","p","e","r","i","e","n","c","e"," ","w","i","t","h">>,
               <<"f","a","m","i","l","i","a","r"," ","w","i","t","h">>,
               <<"w","h","a","t"," ","s","k","i","l","l","s">>,
               <<"p","r","o","f","i","c","i","e","n","t"," ","i","n">>,
               <<"w","o","r","k","e","d"," ","w","i","t","h">>}],
    [query_type |-> "project_specific_question",
     words |-> {<<"w","h","a","t"," ","p","r","o","j","e","c","t">>,
               <<"w","h","i","c","h"," ","p","r","o","j","e","c","t">>,
               <<"p","r","o","j","e","c","t"," ","w","h","e","r","e">>,
               <<"p","r","o","j","e","c","t"," ","t","h","a","t">>,
               <<"b","u","i","l","t"," ","u","s","i","n","g">>,
               <<"d","e","v","e","l","o","p","e","d"," ","w","i","t","h">>,
               <<"w","o","r","k","e","d"," ","o","n"," ","p","r","o","j","e","c","t">>,
               <<"p","r","o","j","e","c","t"," ","e","x","p","e","r","i","e","n","c","e">>}],
    [query_type |-> "profile_analysis",
     words |-> {<<"a","n","a","l","y","z","e">>,
               <<"a","n","a","l","y","s","i","s">>,
               <<"s","t","r","e","n","g","t","h","s">>,
               <<"w","e","a","k","n","e","s","s">>,
               <<"a","s","s","e","s","s">>,
               <<"e","v","a","l","u","a","t","e">>,
               <<"p","r","o","f","i","l","e">>}],
    [query_type |-> "career_suggestions",
     words |-> {<<"c","a","r","e","e","r">>,
               <<"j","o","b">>,
               <<"r","o","l","e">>,
               <<"p","o","s","i","t","i","o","n">>,
               <<"o","p","p","o","r","t","u","n","i","t","y">>,
               <<"s","u","g","g","e","s","t">>,
               <<"r","e","c","o","m","m","e","n","d">>,
               <<"n","e","x","t"," ","s","t","e","p">>}],
    [query_type |-> "project_ideas",
     words |-> {<<"p","r","o","j","e","c","t"," ","i","d","e","a">>,
               <<"b","u","i","l","d"," ","n","e","x","t">>,
               <<"c","r","e","a","t","e"," ","p","r","o","j","e","c","t">>,
               <<"d","e","v","e","l","o","p"," ","s","o","m","e","t","h","i","n","g">>,
               <<"p","o","r","t","f","o","l","i","o"," ","p","r","o","j","e","c","t">>}],
    [query_type |-> "skill_analysis",
     words |-> {<<"s","k","i","l","l"," ","g","a","p">>,
               <<"s","k","i","l","l","s"," ","m","i","s","s","i","n","g">>,
               <<"l","e","a","r","n"," ","n","e","x","t">>,
               <<"i","m","p","r","o","v","e"," ","s","k","i","l","l","s">>,
               <<"s","k","i","l","l"," ","a","n","a","l","y","s","i","s">>}]>>

RECURSIVE detect_from(_, _)
detect_from(question_lower, i) ==
  IF i > Len(detect_keywords) THEN "general_question"
  ELSE IF any_in(detect_keywords[i].words, question_lower)
       THEN detect_keywords[i].query_type
       ELSE detect_from(question_lower, i + 1)

\* PromptTemplates.detect_query_type
detect_query_type(question) == detect_from(lower(question), 1)


SecondsPerHour == 3600

\* self.cache_ttl = cache_ttl_hours * 3600
cache_ttl == cache_ttl_hours * SecondsPerHour

\* self.max_cache_size
max_cache_size == MaxCacheSize

\* Optional[str]
None == <<>>
Some(r) == <<r>>

\* ------------------------------------------------------------- inputs
Q_list == <<"l","i","s","t"," ","m","y"," ","s","k","i","l","l","s">>
Q_can_list == <<"C","a","n"," ","y","o","u"," ","l","i","s","t"," ","m","y"," ","s","k","i","l","l","s","?">>
Q_today == <<"w","h","a","t"," ","a","r","e"," ","m","y"," ","s","k","i","l","l","s"," ","t","o","d","a","y">>
Q_short == <<"m","y"," ","s","k","i","l","l","s"," ">>
Q_long == <<"m","y"," ","s","k","i","l","l","s"," ">> \o [i \in 1..(MaxQuestionLen - 9) |-> "x"]
Q_chat == <<"h","o","w"," ","a","r","e"," ","y","o","u"," ","d","o","i","n","g">>
Q_project == <<"w","h","i","c","h"," ","p","r","o","j","e","c","t"," ","u","s","e","d"," ","A","n","g","u","l","a","r">>

Questions == {Q_list, Q_can_list, Q_today, Q_short, Q_long, Q_chat}

\* two types of the allow-list (one the generic fallback) and one outside it
QueryTypes == {"general_question", "technical_question", "search_response"}

ContextSummaries == {<<"ctx1">>}

R_good == <<"Y","o","u"," ","k","n","o","w"," ","P","y","t","h","o","n"," ","a","n","d"," ","S","Q","L"," ","w","e","l","l",".">>
R_other == <<"A","n","g","u","l","a","r"," ","a","n","d"," ","T","y","p","e","S","c","r","i","p","t"," ","a","r","e"," ","y","o","u","r"," ","m","a","i","n"," ","s","k","i","l","l","s",".">>
R_short == <<"Y","e","s",","," ","y","o","u"," ","d","o",".">>
R_padded == <<"S","h","o","r","t"," ","a","n","s","w","e","r","."," "," "," "," "," "," "," "," "," "," ">>
R_error == <<"A","n"," ","E","r","r","o","r"," ","o","c","c","u","r","r","e","d"," ","w","h","i","l","e"," ","t","h","i","n","k","i","n","g"," ","a","b","o","u","t"," ","i","t",".">>
R_sorry == <<"S","o","r","r","y",","," ","I"," ","c","a","n","n","o","t"," ","a","n","s","w","e","r"," ","t","h","a","t"," ","q","u","e","s","t","i","o","n",".">>

Responses == {R_good, R_other, R_short, R_padded, R_error, R_sorry}

\* what str(e) is for the exceptions the LLM client raises
E_timeout == <<"R","e","q","u","e","s","t"," ","t","i","m","e","d"," ","o","u","t",".">>
E_connection == <<"C","o","n","n","e","c","t","i","o","n"," ","e","r","r","o","r",".">>
LLMErrors == {E_timeout, E_connection}

STR_trouble == <<"I","'","m"," ","h","a","v","i","n","g"," ","t","r","o","u","b","l","e"," ","c","o","n","n","e","c","t","i","n","g"," ","t","o"," ","t","h","e"," ","A","I"," ","s","e","r","v","i","c","e",":"," ">>

\* the except branch of Agent._generate_llm_response
trouble_response(e) == STR_trouble \o e

\* the questions asked of the agent and the texts the LLM returns
AgentQuestions == {Q_project, Q_chat}
LLMContents == {R_good}
AgentResponses ==
  {strip(c) : c \in LLMContents} \cup {trouble_response(e) : e \in LLMErrors}

AllQuestions == Questions \cup AgentQuestions
AllQueryTypes == QueryTypes \cup {detect_query_type(q) : q \in AgentQuestions}
AllResponses == Responses \cup AgentResponses

\* The string functions are evaluated once per input of the bounded sets.
DetectedOf == [q \in AgentQuestions |-> detect_query_type(q)] @@ <<>>

CacheableOf ==
  [q \in AllQuestions, t \in AllQueryTypes |-> _is_cacheable(q, t)] @@ <<>>

NormalizedOf ==
  [q \in {x \in AllQuestions : \E t \in AllQueryTypes : CacheableOf[x, t]}
     |-> _normalize_question(q)] @@ <<>>

RejectedOf == [r \in AllResponses |-> response_rejected(r)] @@ <<>>

\* ------------------------------------------------------------- state
VARIABLES
  cache,   \* ResponseCache.cache: the entries in dict insertion order
  clock,   \* time.time(), in seconds
  ret,     \* the last call: its operation, the return statement it left by,
           \* its return value and how many entries the size cap evicted
  watched, \* history: one cache_response call that stored an entry, picked
           \* for observation until an invalidate or an overwrite of its key,
           \* and what the get_cached_response just made for its key returned
  th       \* the threads inside calls on the one ResponseCache: per thread
           \* its call, its position in it, its locals and how it ended

VARIABLES
  data,     \* the user_profile of the knowledge base that load_data() returns
  index,    \* VectorDB.index of the session: the texts of its vectors
  metadata, \* VectorDB.metadata of the session
  disk,     \* the index file and the metadata file
  rb,       \* the thread in rebuild_from_data: its position and its locals
  se,       \* the thread in search: its position, its locals, and as history
            \* the complete indexes it overlaps
  last,     \* what the last call on the agent or the pages returned
  asks      \* history: what the ask_question before the latest returned,
            \* when the latest call is an ask_question on the same profile

VARIABLES
  calc      \* the one call that is being looked at: its name, its
            \* arguments, its position and what it returned

cacheVars == <<cache, clock, ret, watched, th>>
agentVars == <<data, last, asks>>
vdbVars == <<index, metadata, disk, rb, se>>
calcVars == <<calc>>
vars == <<cacheVars, agentVars, vdbVars, calcVars>>

\* hashlib.md5(f"{query_type}:{normalized_question}:{context_summary}"): the
\* digest is modelled by the triple it hashes.
_generate_cache_key(question, query_type, context_summary) ==
  [query_type |-> query_type,
   question |-> NormalizedOf[question],
   context_summary |-> context_summary]

\* CacheEntry(response, query_type, timestamp, hit_count), kept with its key
CacheEntry(key, response, query_type, timestamp, hit_count) ==
  [key |-> key, response |-> response, query_type |-> query_type,
   timestamp |-> timestamp, hit_count |-> hit_count]

\* dict operations on the insertion-ordered sequence of entries
dict_keys(d) == {d[i].key : i \in DOMAIN d}

dict_entries(d) == {d[i] : i \in DOMAIN d}

dict_get(d, key) == d[CHOOSE i \in DOMAIN d : d[i].key = key]

\* d[key] = entry: an existing key keeps its position
dict_set(d, key, entry) ==
  IF key \in dict_keys(d)
  THEN [i \in DOMAIN d |-> IF d[i].key = key THEN entry ELSE d[i]]
  ELSE Append(d, entry)

dict_del(d, key) == SelectSeq(d, LAMBDA e : e.key # key)

\* _is_cache_entry_valid with <= for <
_is_cache_entry_valid_inclusive(entry, current_time) ==
  (current_time - entry.timestamp) <= cache_ttl

_is_cache_entry_valid(entry, current_time) ==
  (current_time - entry.timestamp) < cache_ttl

\* sorted(items, key=timestamp): stable, oldest first
RECURSIVE sorted_by_timestamp(_)
sorted_by_timestamp(d) ==
  IF d = <<>> THEN <<>>
  ELSE LET rest == sorted_by_timestamp(Tail(d))
           x == Head(d)
           before == {i \in DOMAIN rest : x.timestamp <= rest[i].timestamp}
           n == IF before = {} THEN Len(rest) + 1
                ELSE CHOOSE i \in before : \A j \in before : i <= j
       IN SubSeq(rest, 1, n - 1) \o <<x>> \o SubSeq(rest, n, Len(rest))

\* the expired_keys of _cleanup_cache
expired_keys(d, current_time) ==
  {d[i].key : i \in {j \in DOMAIN d : (current_time - d[j].timestamp) > cache_ttl}}

\* oldest_keys taking the entries from the wrong end of sorted_entries
oldest_keys_from_end(d) ==
  IF Len(d) > max_cache_size
  THEN LET sorted_entries == sorted_by_timestamp(d)
           entries_to_remove == Len(d) - max_cache_size
       IN {sorted_entries[i].key :
             i \in (Len(d) - entries_to_remove + 1)..Len(d)}
  ELSE {}

\* the keys of sorted_entries[:entries_to_remove] of _cleanup_cache
oldest_keys(d) ==
  IF Len(d) > max_cache_size
  THEN LET sorted_entries == sorted_by_timestamp(d)
           entries_to_remove == Len(d) - max_cache_size
       IN {sorted_entries[i].key : i \in 1..entries_to_remove}
  ELSE {}

_cleanup_cache(d, current_time) ==
  LET live == SelectSeq(d, LAMBDA e : e.key \notin expired_keys(d, current_time))
  IN SelectSeq(live, LAMBDA e : e.key \notin oldest_keys(live))

\* the keys the size cap of _cleanup_cache removes from d
cap_evicted(d, current_time) ==
  oldest_keys(SelectSeq(d, LAMBDA e : e.key \notin expired_keys(d, current_time)))

\* what a call leaves behind: the cache, the return statement taken, the
\* return value and how many entries the size cap evicted
Result(d, path, value, evicted) ==
  [cache |-> d, path |-> path, value |-> value, evicted |-> evicted]

\* get_cached_response with a hit that also refreshes the entry's timestamp
get_cached_response_refreshing(d, current_time, question, query_type, context_summary) ==
  IF ~CacheableOf[question, query_type]
  THEN Result(d, "not_cacheable", None, 0)
  ELSE LET cache_key == _generate_cache_key(question, query_type, context_summary) IN
       IF cache_key \notin dict_keys(d)
       THEN Result(d, "miss", None, 0)
       ELSE LET entry == dict_get(d, cache_key) IN
            IF ~_is_cache_entry_valid(entry, current_time)
            THEN Result(dict_del(d, cache_key), "expired", None, 0)
            ELSE Result(dict_set(d, cache_key,
                                 [entry EXCEPT !.hit_count = @ + 1,
                                               !.timestamp = current_time]),
                        "hit", Some(entry.response), 0)

\* ResponseCache.get_cached_response on cache d at current_time
get_cached_response(d, current_time, question, query_type, context_summary) ==
  IF ~CacheableOf[question, query_type]
  THEN Result(d, "not_cacheable", None, 0)
  ELSE LET cache_key == _generate_cache_key(question, query_type, context_summary) IN
       IF cache_key \notin dict_keys(d)
       THEN Result(d, "miss", None, 0)
       ELSE LET entry == dict_get(d, cache_key) IN
            IF ~_is_cache_entry_valid(entry, current_time)
            THEN Result(dict_del(d, cache_key), "expired", None, 0)
            ELSE Result(dict_set(d, cache_key, [entry EXCEPT !.hit_count = @ + 1]),
                        "hit", Some(entry.response), 0)

\* the cache after the store of cache_response (lines 189-199), before its
\* cleanup
stored(d, current_time, question, query_type, response, context_summary) ==
  LET cache_key == _generate_cache_key(question, query_type, context_summary)
      entry == CacheEntry(cache_key, response, query_type, current_time, 0)
  IN dict_set(d, cache_key, entry)

\* ResponseCache.cache_response on cache d at current_time
cache_response(d, current_time, question, query_type, response, context_summary) ==
  IF ~CacheableOf[question, query_type]
  THEN Result(d, "not_cacheable", None, 0)
  ELSE IF RejectedOf[response]
  THEN Result(d, "rejected_response", None, 0)
  ELSE LET filled == stored(d, current_time, question, query_type, response,
                            context_summary)
       IN Result(_cleanup_cache(filled, current_time), "stored", None,
                 Cardinality(cap_evicted(filled, current_time)))

\* ResponseCache.invalidate_cache
invalidate_cache(d) == <<>>

Call(op, res) ==
  [op |-> op, path |-> res.path, value |-> res.value, evicted |-> res.evicted]

NoResult == Result(<<>>, "", None, 0)

\* ------------------------------------------------------ the profile
\* data["user_profile"] as ensure_data_structure and load_data shape it, with
\* no profile_summary, attachments or urls; the other sections stay empty
Names == {"", "Ann"}
Roles == {"", "developer"}
AgentNames == {""}

Profile(name, current_role) == [name |-> name, current_role |-> current_role]

EmptyProfile == Profile("", "")

\* ContextOptimizer._optimize_user_profile: the parts it joins
_optimize_user_profile(profile) ==
  (IF profile.name # "" THEN <<"Name: ", profile.name>> ELSE <<>>)
  \o (IF profile.current_role # "" THEN <<"Role: ", profile.current_role>>
      ELSE <<>>)

\* ContextOptimizer.optimize_profile_context: user_profile is a dict with
\* keys, so it is always taken; the empty sections are skipped
optimize_profile_context(d, query) == _optimize_user_profile(d)

\* ResponseCache._generate_context_summary: md5 of the context, modelled as
\* the context it hashes
_generate_context_summary(context) == context

\* the documents rebuild_from_data makes of user_profile: one per non-empty
\* string value, in dict order
documents_of(d) ==
  (IF d.name # "" THEN <<[key |-> "name", value |-> d.name]>> ELSE <<>>)
  \o (IF d.current_role # ""
      THEN <<[key |-> "current_role", value |-> d.current_role]>> ELSE <<>>)

Stored(ix, md) == [index |-> ix, metadata |-> md]

\* VectorDB.rebuild_from_data run to its end on a VectorDB: the index and the
\* metadata it is left with, and the files (save_index runs only inside
\* add_documents, which is only called with documents)
rebuild_from_data(d, files) ==
  LET documents == documents_of(d) IN
  [index |-> documents, metadata |-> documents,
   files |-> IF documents # <<>> THEN Stored(documents, documents) ELSE files,
   documents_added |-> Len(documents)]

\* ---------------------------------------------------------- search
\* top_k of the agent's vector_db.search(question, top_k=3)
top_k == 3

\* score_threshold = 0.3, in hundredths
score_threshold == 30

\* the inner product of the normalized embeddings of the query and of a
\* document, in hundredths: the embedding model is outside the repository,
\* so a fixed table stands for it
similarity(query, doc) ==
  CASE doc.key = "current_role" -> 60
    [] doc.key = "location" -> 90
    [] doc.key = "profile_summary" -> 30
    [] OTHER -> 25

Min(a, b) == IF a < b THEN a ELSE b

\* the position of the best score among positions, the first one on a tie
best_of(ix, query, positions) ==
  CHOOSE i \in positions :
    \A j \in positions :
      \/ similarity(query, ix[i]) > similarity(query, ix[j])
      \/ similarity(query, ix[i]) = similarity(query, ix[j]) /\ i <= j

RECURSIVE ranked_from(_, _, _, _)
ranked_from(ix, query, positions, n) ==
  IF n = 0 \/ positions = {} THEN <<>>
  ELSE LET i == best_of(ix, query, positions) IN
       <<[idx |-> i, score |-> similarity(query, ix[i])]>>
       \o ranked_from(ix, query, positions \ {i}, n - 1)

\* self.index.search(query_embedding, search_k): scores and indices, best
\* first (positions count from 1 here)
index_search(ix, query, search_k) ==
  ranked_from(ix, query, 1..Len(ix), search_k)

Hit(text, md, score) == [text |-> text, metadata |-> md, score |-> score]

\* filter_hits without the test of the score
RECURSIVE filter_hits_any_score(_, _)
filter_hits_any_score(hits, md) ==
  IF hits = <<>> THEN <<>>
  ELSE (IF hits[1].idx <= Len(md)
        THEN <<Hit(md[hits[1].idx], md[hits[1].idx], hits[1].score)>>
        ELSE <<>>)
       \o filter_hits_any_score(Tail(hits), md)

RECURSIVE filter_hits(_, _)
filter_hits(hits, md) ==
  IF hits = <<>> THEN <<>>
  ELSE (IF hits[1].idx <= Len(md) /\ hits[1].score >= score_threshold
        THEN <<Hit(md[hits[1].idx], md[hits[1].idx], hits[1].score)>>
        ELSE <<>>)
       \o filter_hits(Tail(hits), md)

\* VectorDB.search run to its end on an index and metadata nobody changes
search(ix, md, query, k) ==
  IF Len(ix) = 0 THEN <<>>
  ELSE LET found == filter_hits(index_search(ix, query, Min(k * 2, Len(ix))),
                                md)
       IN SubSeq(found, 1, Min(k, Len(found)))

RebuildIdle == [pc |-> "idle", documents |-> <<>>, i |-> 0,
                pre |-> Stored(<<>>, <<>>)]

SearchIdle ==
  [pc |-> "idle", hits |-> <<>>, k |-> 0, text |-> <<>>, results |-> <<>>,
   raised |-> FALSE, views |-> {}]

\* ------------------------------------------------------------ agent
NoAnswer ==
  [op |-> "init", question |-> <<>>, at |-> 0, success |-> TRUE,
   cached |-> FALSE, error |-> FALSE, response |-> <<>>, llm_calls |-> 0,
   llm_failed |-> FALSE, cache_changed |-> FALSE]

\* the dict ask_question returns, with what the call was and did
Answer(question, at, success, cached, error, response, calls, failed, changed) ==
  [op |-> "ask_question", question |-> question, at |-> at,
   success |-> success, cached |-> cached, error |-> error,
   response |-> response, llm_calls |-> calls, llm_failed |-> failed,
   cache_changed |-> changed]

\* the outcomes of llm_client.chat.completions.create
LLMOutcomes ==
  [ok : {TRUE}, text : LLMContents] \cup [ok : {FALSE}, text : LLMErrors]

\* Agent._generate_llm_response
_generate_llm_response(outcome) ==
  IF outcome.ok THEN strip(outcome.text) ELSE trouble_response(outcome.text)

GeneratedOf == [o \in LLMOutcomes |-> _generate_llm_response(o)] @@ <<>>

\* ask_question without its step 6: the response is never stored
ask_question_no_store(d, current_time, profile, question, outcome) ==
  LET query_type == DetectedOf[question]
      context_summary ==
        _generate_context_summary(optimize_profile_context(profile, question))
      got == get_cached_response(d, current_time, question, query_type,
                                 context_summary)
  IN IF got.value # None /\ got.value[1] # <<>>
     THEN [cache |-> got.cache,
           answer |-> Answer(question, current_time, TRUE, TRUE, FALSE,
                             got.value[1], 0, FALSE, got.cache # d)]
     ELSE [cache |-> got.cache,
           answer |-> Answer(question, current_time, TRUE, FALSE, FALSE,
                             GeneratedOf[outcome], 1, ~outcome.ok,
                             got.cache # d)]

\* Agent.ask_question on cache d: the cache it leaves and the dict it returns
ask_question(d, current_time, profile, question, outcome) ==
  LET query_type == DetectedOf[question]
      quick_context == optimize_profile_context(profile, question)
      context_summary == _generate_context_summary(quick_context)
      got == get_cached_response(d, current_time, question, query_type,
                                 context_summary)
      response == GeneratedOf[outcome]
      put == cache_response(got.cache, current_time, question, query_type,
                            response, context_summary)
  IN IF got.value # None /\ got.value[1] # <<>>
     THEN [cache |-> got.cache,
           answer |-> Answer(question, current_time, TRUE, TRUE, FALSE,
                             got.value[1], 0, FALSE, got.cache # d)]
     ELSE [cache |-> put.cache,
           answer |-> Answer(question, current_time, TRUE, FALSE, FALSE,
                             response, 1, ~outcome.ok, put.cache # d)]

AgentInit ==
  /\ data = EmptyProfile
  /\ last = NoAnswer
  /\ asks = <<>>

\* init_vector_db: VectorDB() loads the files, and rebuilds from load_data()
\* when that leaves it without vectors
VdbInit ==
  /\ disk = Stored(<<>>, <<>>)
  /\ index = rebuild_from_data(EmptyProfile, Stored(<<>>, <<>>)).index
  /\ metadata = rebuild_from_data(EmptyProfile, Stored(<<>>, <<>>)).metadata
  /\ rb = RebuildIdle
  /\ se = SearchIdle

NoKey == [query_type |-> "", question |-> <<>>, context_summary |-> <<>>]

Threads == {1, 2}

ThreadIdle ==
  [pc |-> "idle", op |-> "", key |-> NoKey, response |-> <<>>,
   entry |-> <<>>, keys |-> <<>>, size |-> 0, it |-> 0, value |-> None,
   raised |-> ""]

NotWatching ==
  [active |-> FALSE, key |-> NoKey, response |-> <<>>, at |-> 0,
   evicted |-> FALSE, got |-> <<>>]

CacheInit ==
  /\ cache = <<>>
  /\ clock = 0
  /\ ret = Call("init", NoResult)
  /\ watched = NotWatching
  /\ th = [t \in Threads |-> ThreadIdle]

NoCalc == [fn |-> "none"]

CalcInit == calc = NoCalc

Init == CacheInit /\ AgentInit /\ VdbInit /\ CalcInit

\* the observer forgets the last answer
Unasked == [watched EXCEPT !.got = <<>>]

GetCachedResponse ==
  \E question \in Questions, query_type \in QueryTypes, cs \in ContextSummaries :
    LET res == get_cached_response(cache, clock, question, query_type, cs) IN
    /\ \A e \in dict_entries(res.cache) : e.hit_count <= MaxHits
    /\ cache' = res.cache
    /\ ret' = Call("get", res)
    /\ UNCHANGED <<clock, watched, th>>
    /\ UNCHANGED <<agentVars, calcVars, vdbVars>>

CacheResponse ==
  \E question \in Questions, query_type \in QueryTypes,
     response \in Responses, cs \in ContextSummaries :
    LET res == cache_response(cache, clock, question, query_type, response, cs) IN
    /\ cache' = res.cache
    /\ ret' = Call("put", res)
    /\ UNCHANGED <<clock, watched, th>>
    /\ UNCHANGED <<agentVars, calcVars, vdbVars>>

InvalidateCache ==
  /\ cache' = invalidate_cache(cache)
  /\ ret' = Call("invalidate", NoResult)
  /\ watched' = NotWatching
  /\ UNCHANGED <<clock, th>>
  /\ UNCHANGED <<agentVars, calcVars, vdbVars>>

\* time.time() advances
Tick ==
  /\ clock < MaxTicks * TickHours * SecondsPerHour
  /\ clock' = clock + TickHours * SecondsPerHour
  /\ ret' = Call("tick", NoResult)
  /\ watched' = Unasked
  /\ UNCHANGED <<cache, th>>
  /\ UNCHANGED <<agentVars, calcVars, vdbVars>>

CacheNext ==
  \/ GetCachedResponse
  \/ CacheResponse
  \/ InvalidateCache
  \/ Tick

SpecCache == Init /\ [][CacheNext]_vars

\* ---------------------------------------------------------------------
\* The same cache with an observer of one stored response, called with
\* cacheable questions, allowed query types and cacheable responses. The
\* observer holds what the calls answer; ret keeps the operation only.
RoundTripQuestions == {Q_list, Q_chat}
RoundTripTypes == {"general_question", "technical_question"}
RoundTripResponses == {R_good, R_other}

\* get_cached_response, its answer noted when it is for the watched key
ObservedGet ==
  \E question \in RoundTripQuestions, query_type \in RoundTripTypes,
     cs \in ContextSummaries :
    LET res == get_cached_response(cache, clock, question, query_type, cs) IN
    /\ \A e \in dict_entries(res.cache) : e.hit_count <= MaxHits
    /\ cache' = res.cache
    /\ ret' = Call("get", NoResult)
    /\ watched' =
         IF /\ watched.active
            /\ res.path # "not_cacheable"
            /\ _generate_cache_key(question, query_type, cs) = watched.key
         THEN [watched EXCEPT !.got = <<res.value>>]
         ELSE Unasked
    /\ UNCHANGED <<clock, th>>
    /\ UNCHANGED <<agentVars, calcVars, vdbVars>>

\* cache_response; when it stores, the observer may start to watch it, and
\* stops watching a key it overwrites
ObservedPut ==
  \E question \in RoundTripQuestions, query_type \in RoundTripTypes,
     response \in RoundTripResponses, cs \in ContextSummaries :
    LET res == cache_response(cache, clock, question, query_type, response, cs)
        key == _generate_cache_key(question, query_type, cs)
        gone == cap_evicted(stored(cache, clock, question, query_type,
                                   response, cs), clock)
    IN /\ cache' = res.cache
       /\ ret' = Call("put", NoResult)
       /\ IF res.path # "stored" THEN watched' = Unasked
          ELSE \/ watched' = [active |-> TRUE, key |-> key,
                              response |-> response, at |-> clock,
                              evicted |-> key \in gone, got |-> <<>>]
               \/ /\ watched.active /\ watched.key # key
                  /\ watched' = [Unasked EXCEPT
                                   !.evicted = @ \/ watched.key \in gone]
               \/ /\ watched.active /\ watched.key = key
                  /\ watched' = NotWatching
               \/ /\ ~watched.active
                  /\ watched' = NotWatching
       /\ UNCHANGED <<clock, th>>
       /\ UNCHANGED <<agentVars, calcVars, vdbVars>>

RoundTripNext ==
  \/ ObservedGet
  \/ ObservedPut
  \/ InvalidateCache
  \/ Tick

SpecRoundTrip == Init /\ [][RoundTripNext]_vars
\* -------------------------------------------------- agent and pages
\* what asks keeps of an answer
Asked(answer) ==
  [question |-> answer.question, at |-> answer.at, cached |-> answer.cached,
   response |-> answer.response, llm_calls |-> answer.llm_calls]

\* Agent.ask_question of the session's agent
AskQuestion ==
  \E question \in AgentQuestions, outcome \in LLMOutcomes :
    LET res == ask_question(cache, clock, data, question, outcome) IN
    /\ \A e \in dict_entries(res.cache) : e.hit_count <= MaxHits
    /\ cache' = res.cache
    /\ last' = res.answer
    /\ asks' = IF last.op = "ask_question" THEN <<Asked(last)>> ELSE <<>>
    /\ UNCHANGED <<clock, ret, watched, th, data, vdbVars, calcVars>>

\* save_data(data): the JSON file is written, then a new VectorDB() loads the
\* files, a new Agent is built around it and its rebuild_knowledge_base
\* rebuilds that VectorDB from the saved data; both are dropped on return
save_data(d) ==
  /\ data' = d
  /\ disk' = rebuild_from_data(d, disk).files
  /\ last' = [NoAnswer EXCEPT !.op = "save_data"]
  /\ asks' = <<>>
  /\ UNCHANGED <<cacheVars, index, metadata, rb, se, calcVars>>

\* user_profile.show: Save Basic Info
SaveBasicInfo ==
  \E name \in AgentNames, current_role \in Roles :
    /\ Profile(name, current_role) # data
    /\ save_data(Profile(name, current_role))

AgentNext ==
  \/ AskQuestion
  \/ SaveBasicInfo
  \/ Tick

SpecAgent == Init /\ [][AgentNext]_vars

\* ------------------------------------- search while the index is rebuilt
\* The session's VectorDB is one object (st.cache_resource) that every
\* script run uses: one thread is in Agent.rebuild_knowledge_base while
\* another is in VectorDB.search.
Query == "q"

\* user_profile.show: Save Basic Info, between rebuilds
SaveProfile ==
  \E name \in Names, current_role \in Roles :
    /\ rb.pc = "idle"
    /\ se.pc = "idle"
    /\ Profile(name, current_role) # data
    /\ save_data(Profile(name, current_role))

\* rebuild_from_data, line 101: self.index = faiss.IndexFlatIP(...)
RebuildStart ==
  /\ rb.pc = "idle"
  /\ index' = <<>>
  /\ rb' = [pc |-> "metadata", documents |-> documents_of(data), i |-> 0,
            pre |-> Stored(index, metadata)]
  /\ se' = IF se.pc \in {"idle", "done"} THEN se
           ELSE [se EXCEPT !.views = @ \cup {Stored(documents_of(data),
                                                    documents_of(data))}]
  /\ UNCHANGED <<cacheVars, agentVars, calcVars, metadata, disk>>

\* line 102: self.metadata = []; lines 104-210 build the documents
RebuildClearMetadata ==
  /\ rb.pc = "metadata"
  /\ metadata' = <<>>
  /\ rb' = IF rb.documents # <<>> THEN [rb EXCEPT !.pc = "add"]
           ELSE RebuildIdle
  /\ UNCHANGED <<cacheVars, agentVars, calcVars, index, disk, se>>

\* add_documents, line 49: self.index.add(embeddings)
RebuildAddVectors ==
  /\ rb.pc = "add"
  /\ index' = index \o rb.documents
  /\ rb' = [rb EXCEPT !.pc = "append", !.i = 1]
  /\ UNCHANGED <<cacheVars, agentVars, calcVars, metadata, disk, se>>

\* add_documents, lines 52-53: one self.metadata.append per document
RebuildAppendMetadata ==
  /\ rb.pc = "append"
  /\ metadata' = Append(metadata, rb.documents[rb.i])
  /\ rb' = IF rb.i < Len(rb.documents) THEN [rb EXCEPT !.i = @ + 1]
           ELSE [rb EXCEPT !.pc = "save"]
  /\ UNCHANGED <<cacheVars, agentVars, calcVars, index, disk, se>>

\* add_documents, line 56: self.save_index()
RebuildSave ==
  /\ rb.pc = "save"
  /\ disk' = Stored(index, metadata)
  /\ rb' = RebuildIdle
  /\ UNCHANGED <<cacheVars, agentVars, calcVars, index, metadata, se>>

\* the complete indexes a search that starts now overlaps
views_now ==
  IF rb.pc = "idle" THEN {Stored(index, metadata)}
  ELSE {rb.pre, Stored(rb.documents, rb.documents)}

\* search, line 63: if self.index.ntotal == 0: return []
SearchStart ==
  /\ se.pc = "idle"
  /\ se' = IF Len(index) = 0
           THEN [SearchIdle EXCEPT !.pc = "done", !.views = views_now]
           ELSE [SearchIdle EXCEPT !.pc = "faiss", !.views = views_now]
  /\ UNCHANGED <<cacheVars, agentVars, calcVars, index, metadata, disk, rb>>

\* lines 71-72: search_k and self.index.search
SearchFaiss ==
  /\ se.pc = "faiss"
  /\ LET hits == index_search(index, Query, Min(top_k * 2, Len(index))) IN
     se' = [se EXCEPT !.hits = hits, !.k = 1,
                      !.pc = IF hits = <<>> THEN "done" ELSE "check"]
  /\ UNCHANGED <<cacheVars, agentVars, calcVars, index, metadata, disk, rb>>

\* the loop moves to its next hit, or ends
next_hit(s) ==
  IF s.k < Len(s.hits) THEN [s EXCEPT !.k = @ + 1, !.pc = "check"]
  ELSE [s EXCEPT !.pc = "done"]

\* line 79: if idx < len(self.metadata) and score >= score_threshold
SearchCheck ==
  /\ se.pc = "check"
  /\ se' = IF /\ se.hits[se.k].idx <= Len(metadata)
              /\ se.hits[se.k].score >= score_threshold
           THEN [se EXCEPT !.pc = "text"]
           ELSE next_hit(se)
  /\ UNCHANGED <<cacheVars, agentVars, calcVars, index, metadata, disk, rb>>

\* line 80: text = self.metadata[idx].get("text", ""); IndexError when the
\* list has become shorter
SearchText ==
  /\ se.pc = "text"
  /\ se' = IF se.hits[se.k].idx <= Len(metadata)
           THEN [se EXCEPT !.pc = "append",
                           !.text = <<metadata[se.hits[se.k].idx]>>]
           ELSE [se EXCEPT !.pc = "done", !.raised = TRUE]
  /\ UNCHANGED <<cacheVars, agentVars, calcVars, index, metadata, disk, rb>>

\* lines 86-90: results.append with self.metadata[idx] read again
SearchAppend ==
  /\ se.pc = "append"
  /\ se' = IF se.hits[se.k].idx <= Len(metadata)
           THEN next_hit([se EXCEPT
                  !.results = Append(@, Hit(se.text[1],
                                            metadata[se.hits[se.k].idx],
                                            se.hits[se.k].score)),
                  !.text = <<>>])
           ELSE [se EXCEPT !.pc = "done", !.raised = TRUE]
  /\ UNCHANGED <<cacheVars, agentVars, calcVars, index, metadata, disk, rb>>

\* line 93: return results[:top_k]
SearchReturn ==
  /\ se.pc = "done"
  /\ se' = SearchIdle
  /\ UNCHANGED <<cacheVars, agentVars, calcVars, index, metadata, disk, rb>>

\* what the search that has reached its end returns
search_returned == SubSeq(se.results, 1, Min(top_k, Len(se.results)))

RebuildNext ==
  \/ SaveProfile
  \/ RebuildStart
  \/ RebuildClearMetadata
  \/ RebuildAddVectors
  \/ RebuildAppendMetadata
  \/ RebuildSave
  \/ SearchStart
  \/ SearchFaiss
  \/ SearchCheck
  \/ SearchText
  \/ SearchAppend
  \/ SearchReturn

SpecRebuild == Init /\ [][RebuildNext]_vars

\* --------------------------------------- threads on one ResponseCache
\* The agent and its ResponseCache are one object (st.cache_resource) that
\* every script run uses, and no method takes a lock: threads interleave
\* between the statements below.
ThreadCalls ==
  {[question |-> Q_list, query_type |-> "general_question",
    response |-> R_good],
   [question |-> Q_chat, query_type |-> "technical_question",
    response |-> R_other]}

ThreadContext == <<"ctx1">>

Thread(t, rec) == [th EXCEPT ![t] = rec]

Raise(rec, exception) == [rec EXCEPT !.pc = "done", !.raised = exception]

Return(rec, value) == [rec EXCEPT !.pc = "done", !.value = value]

\* get_cached_response, lines 153-159: up to `cache_key not in self.cache`
ThGetStart(t) ==
  \E c \in ThreadCalls :
    LET key == _generate_cache_key(c.question, c.query_type, ThreadContext)
        rec == [ThreadIdle EXCEPT !.op = "get", !.key = key]
    IN /\ th[t].pc = "idle"
       /\ th' = Thread(t, IF ~CacheableOf[c.question, c.query_type]
                             \/ key \notin dict_keys(cache)
                          THEN Return(rec, None)
                          ELSE [rec EXCEPT !.pc = "get_entry"])
       /\ UNCHANGED <<cache, clock, ret, watched, agentVars, calcVars, vdbVars>>

\* line 161: entry = self.cache[cache_key]
ThGetEntry(t) ==
  /\ th[t].pc = "get_entry"
  /\ th' = Thread(t, IF th[t].key \notin dict_keys(cache)
                     THEN Raise(th[t], "KeyError")
                     ELSE [th[t] EXCEPT !.pc = "get_valid",
                                        !.entry = <<dict_get(cache, th[t].key)>>])
  /\ UNCHANGED <<cache, clock, ret, watched, agentVars, calcVars, vdbVars>>

\* line 163: if not self._is_cache_entry_valid(entry)
ThGetValid(t) ==
  /\ th[t].pc = "get_valid"
  /\ th' = Thread(t, [th[t] EXCEPT !.pc =
                        IF _is_cache_entry_valid(th[t].entry[1], clock)
                        THEN "get_hit" ELSE "get_del"])
  /\ UNCHANGED <<cache, clock, ret, watched, agentVars, calcVars, vdbVars>>

\* lines 165-166: del self.cache[cache_key]; return None
ThGetDel(t) ==
  /\ th[t].pc = "get_del"
  /\ IF th[t].key \in dict_keys(cache)
     THEN /\ cache' = dict_del(cache, th[t].key)
          /\ th' = Thread(t, Return(th[t], None))
     ELSE /\ th' = Thread(t, Raise(th[t], "KeyError"))
          /\ UNCHANGED cache
  /\ UNCHANGED <<clock, ret, watched, agentVars, calcVars, vdbVars>>

\* the dict still holds the CacheEntry object the thread read
same_entry(d, key, entry) ==
  /\ key \in dict_keys(d)
  /\ dict_get(d, key).timestamp = entry.timestamp
  /\ dict_get(d, key).response = entry.response

\* lines 169-170: entry.hit_count += 1; return entry.response
ThGetHit(t) ==
  /\ th[t].pc = "get_hit"
  /\ IF same_entry(cache, th[t].key, th[t].entry[1])
     THEN /\ dict_get(cache, th[t].key).hit_count < MaxHits
          /\ cache' = dict_set(cache, th[t].key,
                               [dict_get(cache, th[t].key)
                                  EXCEPT !.hit_count = @ + 1])
     ELSE UNCHANGED cache
  /\ th' = Thread(t, Return(th[t], Some(th[t].entry[1].response)))
  /\ UNCHANGED <<clock, ret, watched, agentVars, calcVars, vdbVars>>

\* cache_response, lines 182-199: up to self.cache[cache_key] = entry
ThPutStart(t) ==
  \E c \in ThreadCalls :
    LET key == _generate_cache_key(c.question, c.query_type, ThreadContext)
        rec == [ThreadIdle EXCEPT !.op = "put", !.key = key,
                                  !.response = c.response]
    IN /\ th[t].pc = "idle"
       /\ IF ~CacheableOf[c.question, c.query_type] \/ RejectedOf[c.response]
          THEN /\ th' = Thread(t, Return(rec, None))
               /\ UNCHANGED cache
          ELSE /\ cache' = dict_set(cache, key,
                             CacheEntry(key, c.response, c.query_type,
                                        clock, 0))
               /\ th' = Thread(t, [rec EXCEPT !.pc = "iter"])
       /\ UNCHANGED <<clock, ret, watched, agentVars, calcVars, vdbVars>>

\* _cleanup_cache, line 121: the iterator over self.cache.items() is made
\* and notes the size of the dict
ThIter(t) ==
  /\ th[t].pc = "iter"
  /\ th' = Thread(t, [th[t] EXCEPT !.pc = "scan", !.it = 1,
                                    !.size = Len(cache)])
  /\ UNCHANGED <<cache, clock, ret, watched, agentVars, calcVars, vdbVars>>

\* lines 120-123: one step of the iteration; the iterator raises when the
\* dict has changed size since it was made
ThScan(t) ==
  /\ th[t].pc = "scan"
  /\ th' = Thread(t,
       IF Len(cache) # th[t].size THEN Raise(th[t], "RuntimeError")
       ELSE IF th[t].it > Len(cache)
            THEN [th[t] EXCEPT !.pc = "del_expired", !.it = 1]
       ELSE [th[t] EXCEPT
               !.it = @ + 1,
               !.keys = IF clock - cache[th[t].it].timestamp > cache_ttl
                        THEN Append(@, cache[th[t].it].key) ELSE @])
  /\ UNCHANGED <<cache, clock, ret, watched, agentVars, calcVars, vdbVars>>

\* lines 125-126: del self.cache[key] for the next expired key
ThDelExpired(t) ==
  /\ th[t].pc = "del_expired"
  /\ th[t].it <= Len(th[t].keys)
  /\ IF th[t].keys[th[t].it] \in dict_keys(cache)
     THEN /\ cache' = dict_del(cache, th[t].keys[th[t].it])
          /\ th' = Thread(t, [th[t] EXCEPT !.it = @ + 1])
     ELSE /\ th' = Thread(t, Raise(th[t], "KeyError"))
          /\ UNCHANGED cache
  /\ UNCHANGED <<clock, ret, watched, agentVars, calcVars, vdbVars>>

\* line 129: if len(self.cache) > self.max_cache_size
ThCapCheck(t) ==
  /\ th[t].pc = "del_expired"
  /\ th[t].it > Len(th[t].keys)
  /\ th' = Thread(t, IF Len(cache) > max_cache_size
                     THEN [th[t] EXCEPT !.pc = "sort"]
                     ELSE Return(th[t], None))
  /\ UNCHANGED <<cache, clock, ret, watched, agentVars, calcVars, vdbVars>>

\* sorted_entries[:entries_to_remove], where a negative count leaves that
\* many off the end
slice_to(keys, n) ==
  IF n >= 0 THEN SubSeq(keys, 1, IF n < Len(keys) THEN n ELSE Len(keys))
  ELSE SubSeq(keys, 1, IF Len(keys) + n > 0 THEN Len(keys) + n ELSE 0)

\* lines 131-134: sorted(self.cache.items(), key=timestamp)
ThSort(t) ==
  /\ th[t].pc = "sort"
  /\ th' = Thread(t, [th[t] EXCEPT
                        !.pc = "count",
                        !.keys = [i \in 1..Len(cache) |->
                                    sorted_by_timestamp(cache)[i].key]])
  /\ UNCHANGED <<cache, clock, ret, watched, agentVars, calcVars, vdbVars>>

\* lines 137-138: entries_to_remove and the slice
ThCount(t) ==
  /\ th[t].pc = "count"
  /\ th' = Thread(t, [th[t] EXCEPT
                        !.pc = "evict", !.it = 1,
                        !.keys = slice_to(@, Len(cache) - max_cache_size)])
  /\ UNCHANGED <<cache, clock, ret, watched, agentVars, calcVars, vdbVars>>

\* line 139: del self.cache[key] for the next of the oldest keys
ThEvict(t) ==
  /\ th[t].pc = "evict"
  /\ IF th[t].it > Len(th[t].keys)
     THEN /\ th' = Thread(t, Return(th[t], None))
          /\ UNCHANGED cache
     ELSE IF th[t].keys[th[t].it] \in dict_keys(cache)
     THEN /\ cache' = dict_del(cache, th[t].keys[th[t].it])
          /\ th' = Thread(t, [th[t] EXCEPT !.it = @ + 1])
     ELSE /\ th' = Thread(t, Raise(th[t], "KeyError"))
          /\ UNCHANGED cache
  /\ UNCHANGED <<clock, ret, watched, agentVars, calcVars, vdbVars>>

\* invalidate_cache, line 212: self.cache.clear()
ThInvalidate(t) ==
  /\ th[t].pc = "idle"
  /\ cache' = invalidate_cache(cache)
  /\ th' = Thread(t, Return([ThreadIdle EXCEPT !.op = "invalidate"], None))
  /\ UNCHANGED <<clock, ret, watched, agentVars, calcVars, vdbVars>>

\* the call is over and the thread is free for the next one
ThReturn(t) ==
  /\ th[t].pc = "done"
  /\ th[t].raised = ""
  /\ th' = Thread(t, ThreadIdle)
  /\ UNCHANGED <<cache, clock, ret, watched, agentVars, calcVars, vdbVars>>

ThreadsNext ==
  \/ \E t \in Threads : ThGetStart(t)
  \/ \E t \in Threads : ThGetEntry(t)
  \/ \E t \in Threads : ThGetValid(t)
  \/ \E t \in Threads : ThGetDel(t)
  \/ \E t \in Threads : ThGetHit(t)
  \/ \E t \in Threads : ThPutStart(t)
  \/ \E t \in Threads : ThIter(t)
  \/ \E t \in Threads : ThScan(t)
  \/ \E t \in Threads : ThDelExpired(t)
  \/ \E t \in Threads : ThCapCheck(t)
  \/ \E t \in Threads : ThSort(t)
  \/ \E t \in Threads : ThCount(t)
  \/ \E t \in Threads : ThEvict(t)
  \/ \E t \in Threads : ThInvalidate(t)
  \/ \E t \in Threads : ThReturn(t)
  \/ Tick

SpecThreads == Init /\ [][ThreadsNext]_vars


\* ------------------------------------------- phrasings of one question
\* how many times a phrasing is varied
MaxEdits == 2

\* _generate_cache_key for a question outside the tables above
cache_key_of(question, query_type, context_summary) ==
  [query_type |-> query_type,
   question |-> _normalize_question(question),
   context_summary |-> context_summary]

\* str.swapcase() of one character
swap_char(c) ==
  IF \E i \in DOMAIN UpperCase : UpperCase[i] = c
  THEN LowerCase[CHOOSE i \in DOMAIN UpperCase : UpperCase[i] = c]
  ELSE IF \E i \in DOMAIN LowerCase : LowerCase[i] = c
  THEN UpperCase[CHOOSE i \in DOMAIN LowerCase : LowerCase[i] = c]
  ELSE c

\* s[:i] + t + s[i:]
insert_at(s, i, t) == SubSeq(s, 1, i) \o t \o SubSeq(s, i + 1, Len(s))

\* the keys of `replacements` that are phrases, and those that are marks
filler_phrases == {replacements[i] : i \in {1, 2, 3, 4, 7, 8, 9, 10}}
punctuation_marks == {replacements[i] : i \in {5, 6}}

PhrasingQuestions == {Q_list, Q_can_list}
PhrasingType == "technical_question"
PhrasingContext == <<"ctx1">>

\* two phrasings and the keys _generate_cache_key makes of them
Phrasing(question, variant, edits, how) ==
  [fn |-> "_generate_cache_key", question |-> question, variant |-> variant,
   edits |-> edits, how |-> how,
   key |-> cache_key_of(question, PhrasingType, PhrasingContext),
   variant_key |-> cache_key_of(variant, PhrasingType, PhrasingContext)]

\* the keys of two of the questions are computed
PhrasingStart ==
  /\ calc = NoCalc
  /\ \E q \in PhrasingQuestions, v \in PhrasingQuestions :
       calc' = Phrasing(q, v, 0, "given")
  /\ UNCHANGED <<cacheVars, agentVars, vdbVars>>

PhrasingEdit(variant, how) ==
  /\ calc.fn = "_generate_cache_key"
  /\ calc.edits < MaxEdits
  /\ calc' = Phrasing(calc.question, variant, calc.edits + 1, how)
  /\ UNCHANGED <<cacheVars, agentVars, vdbVars>>

\* a letter of the variant in the other case
PhrasingSwapCase ==
  /\ calc.fn = "_generate_cache_key"
  /\ \E i \in 1..Len(calc.variant) :
       /\ swap_char(calc.variant[i]) # calc.variant[i]
       /\ PhrasingEdit([calc.variant EXCEPT ![i] = swap_char(@)], "case")

\* one more filler phrase in front of the variant
PhrasingAddFiller ==
  /\ calc.fn = "_generate_cache_key"
  /\ \E f \in filler_phrases :
       PhrasingEdit(insert_at(calc.variant, 0, f), "filler")

\* one more '?' or '.' anywhere in the variant
PhrasingAddMark ==
  /\ calc.fn = "_generate_cache_key"
  /\ \E i \in 0..Len(calc.variant), p \in punctuation_marks :
       PhrasingEdit(insert_at(calc.variant, i, p), "punctuation")

\* one more blank in a run of blanks of the variant
PhrasingWiden ==
  /\ calc.fn = "_generate_cache_key"
  /\ \E i \in 1..Len(calc.variant) :
       /\ calc.variant[i] \in Whitespace
       /\ PhrasingEdit(insert_at(calc.variant, i, STR_space), "whitespace")

PhrasingNext ==
  \/ PhrasingStart
  \/ PhrasingSwapCase
  \/ PhrasingAddFiller
  \/ PhrasingAddMark
  \/ PhrasingWiden

SpecPhrasing == Init /\ [][PhrasingNext]_vars

\* ------------------------------------------ the entries over the calls
\* two phrasings of one question, under two query types
EntryQuestions == {Q_list, Q_can_list}
EntryTypes == {"general_question", "technical_question"}
EntryResponses == {R_good, R_other, R_short}

EntryGet ==
  \E question \in EntryQuestions, query_type \in EntryTypes, cs \in ContextSummaries :
    LET res == get_cached_response(cache, clock, question, query_type, cs) IN
    /\ \A e \in dict_entries(res.cache) : e.hit_count <= MaxHits
    /\ cache' = res.cache
    /\ ret' = Call("get", res)
    /\ UNCHANGED <<clock, watched, th>>
    /\ UNCHANGED <<agentVars, calcVars, vdbVars>>

EntryPut ==
  \E question \in EntryQuestions, query_type \in EntryTypes,
     response \in EntryResponses, cs \in ContextSummaries :
    LET res == cache_response(cache, clock, question, query_type, response, cs) IN
    /\ cache' = res.cache
    /\ ret' = Call("put", res)
    /\ UNCHANGED <<clock, watched, th>>
    /\ UNCHANGED <<agentVars, calcVars, vdbVars>>

EntriesNext ==
  \/ EntryGet
  \/ EntryPut
  \/ InvalidateCache
  \/ Tick

SpecEntries == Init /\ [][EntriesNext]_vars

\* ------------------------------------------------ search of an index
\* how many records the searched index holds, and the largest top_k
MaxRecords == 3
MaxTopK == 3

\* documents of user_profile fields, one per score of the table above
SearchDocuments ==
  {[key |-> "name", value |-> "Ann"],
   [key |-> "current_role", value |-> "developer"],
   [key |-> "location", value |-> "Pune"],
   [key |-> "profile_summary", value |-> "Builds web applications"]}

\* a VectorDB, the top_k of the last search of it and what that returned
Searched(ix, md, k, results) ==
  [fn |-> "search", index |-> ix, metadata |-> md, top_k |-> k,
   results |-> results]

\* VectorDB() with no files to load
SearchNew ==
  /\ calc = NoCalc
  /\ calc' = Searched(<<>>, <<>>, 0, <<>>)
  /\ UNCHANGED <<cacheVars, agentVars, vdbVars>>

\* add_documents([document])
SearchAddDocument ==
  /\ calc.fn = "search"
  /\ Len(calc.index) < MaxRecords
  /\ \E doc \in SearchDocuments :
       calc' = Searched(Append(calc.index, doc), Append(calc.metadata, doc),
                        0, <<>>)
  /\ UNCHANGED <<cacheVars, agentVars, vdbVars>>

\* search(query, top_k)
SearchCall ==
  /\ calc.fn = "search"
  /\ \E k \in 1..MaxTopK :
       calc' = Searched(calc.index, calc.metadata, k,
                        search(calc.index, calc.metadata, Query, k))
  /\ UNCHANGED <<cacheVars, agentVars, vdbVars>>

SearchNext ==
  \/ SearchNew
  \/ SearchAddDocument
  \/ SearchCall

SpecSearch == Init /\ [][SearchNext]_vars

\* ------------------------------------------------- save_index, by step
\* a metadata file that pickle.dump did not finish
Torn == <<[key |-> "torn", value |-> "torn"]>>

\* the save_index call of an add_documents: its position, the files and the
\* VectorDB it started from
Saving(pc, prior, memory, failed) ==
  [fn |-> "save_index", pc |-> pc, prior |-> prior, memory |-> memory,
   failed |-> failed]

\* add_documents([document]), lines 42-53, up to its call of save_index
PersistAddDocument ==
  /\ calc = NoCalc \/ (calc.fn = "save_index" /\ calc.pc = "returned")
  /\ Len(index) < MaxRecords
  /\ \E doc \in SearchDocuments :
       /\ index' = Append(index, doc)
       /\ metadata' = Append(metadata, doc)
       /\ calc' = Saving("write_index", disk,
                         Stored(Append(index, doc), Append(metadata, doc)),
                         FALSE)
  /\ UNCHANGED <<cacheVars, agentVars, disk, rb, se>>

\* lines 219-222: os.makedirs and faiss.write_index, or an exception from
\* them that the except clause prints
PersistWriteIndex ==
  /\ calc.fn = "save_index"
  /\ calc.pc = "write_index"
  /\ \/ /\ disk' = [disk EXCEPT !.index = index]
        /\ calc' = [calc EXCEPT !.pc = "write_metadata"]
     \/ /\ calc' = [calc EXCEPT !.pc = "returned", !.failed = TRUE]
        /\ UNCHANGED disk
  /\ UNCHANGED <<cacheVars, agentVars, index, metadata, rb, se>>

\* lines 225-226: open(self.metadata_path, 'wb') and pickle.dump; open may
\* raise, and pickle.dump may raise after open has truncated the file
PersistWriteMetadata ==
  /\ calc.fn = "save_index"
  /\ calc.pc = "write_metadata"
  /\ \/ /\ disk' = [disk EXCEPT !.metadata = metadata]
        /\ calc' = [calc EXCEPT !.pc = "returned"]
     \/ /\ calc' = [calc EXCEPT !.pc = "returned", !.failed = TRUE]
        /\ UNCHANGED disk
     \/ /\ disk' = [disk EXCEPT !.metadata = Torn]
        /\ calc' = [calc EXCEPT !.pc = "returned", !.failed = TRUE]
  /\ UNCHANGED <<cacheVars, agentVars, index, metadata, rb, se>>

PersistNext ==
  \/ PersistAddDocument
  \/ PersistWriteIndex
  \/ PersistWriteMetadata

SpecPersist == Init /\ [][PersistNext]_vars

\* --------------------------------------- the embedding call that fails
\* self.embedding_model.encode(texts) returns the embeddings or raises
EmbedOutcomes == {"ok", "raises"}

\* a call on the session's VectorDB: the VectorDB it started from, whether
\* encode raised in it and whether the call raised to its caller
Embedded(fn, before, outcome, raised) ==
  [fn |-> fn, before |-> before, encode_raised |-> outcome = "raises",
   raised |-> raised]

\* add_documents([document]): encode (line 43) comes before the index and
\* the metadata are touched, and nothing catches what it raises
EmbedAddDocuments ==
  /\ Len(index) < MaxRecords
  /\ \E doc \in SearchDocuments, outcome \in EmbedOutcomes :
       /\ calc' = Embedded("add_documents", Stored(index, metadata), outcome,
                           outcome = "raises")
       /\ IF outcome = "ok"
          THEN /\ index' = Append(index, doc)
               /\ metadata' = Append(metadata, doc)
               /\ disk' = Stored(Append(index, doc), Append(metadata, doc))
          ELSE UNCHANGED <<index, metadata, disk>>
  /\ UNCHANGED <<cacheVars, agentVars, rb, se>>

\* rebuild_from_data(load_data()): lines 101-102 empty the index and the
\* metadata, then add_documents is called when there are documents
EmbedRebuild ==
  \E outcome \in EmbedOutcomes :
    LET documents == documents_of(data)
        done == rebuild_from_data(data, disk)
    IN /\ outcome = "raises" => documents # <<>>
       /\ calc' = Embedded("rebuild_from_data", Stored(index, metadata),
                           outcome, outcome = "raises")
       /\ IF outcome = "ok"
          THEN /\ index' = done.index
               /\ metadata' = done.metadata
               /\ disk' = done.files
          ELSE /\ index' = <<>>
               /\ metadata' = <<>>
               /\ UNCHANGED disk
       /\ UNCHANGED <<cacheVars, agentVars, rb, se>>

EmbedNext ==
  \/ EmbedAddDocuments
  \/ EmbedRebuild
  \/ SaveProfile

SpecEmbed == Init /\ [][EmbedNext]_vars

\* ------------------------------------------------- context_scorer.py
\* A score is a whole number of ScoreUnit-ths, so that the quotients by up
\* to eight query words and the products by 1.5, 1.8, 2.5 and 0.8 are exact.
ScoreUnit == 84000000

\* tenths * 0.1
tenths(n) == n * (ScoreUnit \div 10)

\* score * (n / 10)
times_tenths(score, n) == (score \div 10) * n

\* (part / whole) * (n / 10), 0 for an empty whole
share_tenths(part, whole, n) ==
  IF whole > 0 THEN (part * tenths(n)) \div whole ELSE 0

Digits == <<"0","1","2","3","4","5","6","7","8","9">>

\* the characters that \w of the regular expressions matches
WordChars ==
  {LowerCase[i] : i \in DOMAIN LowerCase} \cup {UpperCase[i] : i \in DOMAIN UpperCase}
  \cup {Digits[i] : i \in DOMAIN Digits} \cup {"_"}

is_word_char(c) == c \in WordChars

\* the positions where a maximal run of \w starts, and where the run that
\* holds position i ends
run_starts(s) ==
  {i \in 1..Len(s) :
     is_word_char(s[i]) /\ (i = 1 \/ ~is_word_char(s[i - 1]))}

RECURSIVE run_end(_, _)
run_end(s, i) ==
  IF i < Len(s) /\ is_word_char(s[i + 1]) THEN run_end(s, i + 1) ELSE i

\* set(re.findall(r'\b\w+\b', text))
words_of(text) == {SubSeq(text, i, run_end(text, i)) : i \in run_starts(text)}

endswith(s, suffix) ==
  Len(suffix) <= Len(s) /\ SubSeq(s, Len(s) - Len(suffix) + 1, Len(s)) = suffix

\* re.findall(r'\b\w+<dotted>\b', text) for <dotted> = '\.js' or '\.net':
\* a run of \w, the dotted suffix, and no \w after it
dotted_matches(text, dotted) ==
  {SubSeq(text, i, run_end(text, i) + Len(dotted)) :
     i \in {k \in run_starts(text) :
              LET j == run_end(text, k) IN
              /\ j + Len(dotted) <= Len(text)
              /\ SubSeq(text, j + 1, j + Len(dotted)) = dotted
              /\ (j + Len(dotted) = Len(text)
                  \/ ~is_word_char(text[j + Len(dotted) + 1]))}}

\* re.findall(r'\b\w+<tail>\b', text) for <tail> = 'sql' or 'db': the runs
\* of \w that end in the tail and are longer than it
tailed_matches(text, tail) ==
  {w \in words_of(text) : Len(w) > Len(tail) /\ endswith(w, tail)}

tech_relationships ==
  <<
   [tech |-> <<"a","n","g","u","l","a","r">>,
    related |-> <<<<"t","y","p","e","s","c","r","i","p","t">>, <<"r","x","j","s">>, <<"n","g","r","x">>, <<"m","a","t","e","r","i","a","l">>, <<"p","r","i","m","e","n","g">>, <<"n","o","d","e","j","s">>>>],
   [tech |-> <<"r","e","a","c","t">>,
    related |-> <<<<"j","a","v","a","s","c","r","i","p","t">>, <<"t","y","p","e","s","c","r","i","p","t">>, <<"j","s","x">>, <<"r","e","d","u","x">>, <<"n","o","d","e","j","s">>>>],
   [tech |-> <<"v","u","e">>,
    related |-> <<<<"j","a","v","a","s","c","r","i","p","t">>, <<"t","y","p","e","s","c","r","i","p","t">>, <<"v","u","e","x">>, <<"n","o","d","e","j","s">>>>],
   [tech |-> <<"t","y","p","e","s","c","r","i","p","t">>,
    related |-> <<<<"j","a","v","a","s","c","r","i","p","t">>, <<"a","n","g","u","l","a","r">>, <<"r","e","a","c","t">>, <<"n","o","d","e","j","s">>>>],
   [tech |-> <<"j","a","v","a","s","c","r","i","p","t">>,
    related |-> <<<<"h","t","m","l">>, <<"c","s","s">>, <<"n","o","d","e","j","s">>, <<"r","e","a","c","t">>, <<"v","u","e">>>>],
   [tech |-> <<".","n","e","t">>,
    related |-> <<<<"c","#">>, <<"a","s","p",".","n","e","t">>, <<"e","n","t","i","t","y"," ","f","r","a","m","e","w","o","r","k">>, <<"s","q","l"," ","s","e","r","v","e","r">>, <<"a","z","u","r","e">>>>],
   [tech |-> <<".","n","e","t"," ","c","o","r","e">>,
    related |-> <<<<"c","#">>, <<"a","s","p",".","n","e","t"," ","c","o","r","e">>, <<"e","n","t","i","t","y"," ","f","r","a","m","e","w","o","r","k">>, <<"s","q","l"," ","s","e","r","v","e","r">>, <<"a","z","u","r","e">>>>],
   [tech |-> <<"c","#">>,
    related |-> <<<<".","n","e","t">>, <<".","n","e","t"," ","c","o","r","e">>, <<"a","s","p",".","n","e","t">>, <<"e","n","t","i","t","y"," ","f","r","a","m","e","w","o","r","k">>, <<"s","q","l"," ","s","e","r","v","e","r">>>>],
   [tech |-> <<"n","o","d","e","j","s">>,
    related |-> <<<<"j","a","v","a","s","c","r","i","p","t">>, <<"t","y","p","e","s","c","r","i","p","t">>, <<"e","x","p","r","e","s","s">>, <<"m","o","n","g","o","d","b">>, <<"n","p","m">>>>],
   [tech |-> <<"p","y","t","h","o","n">>,
    related |-> <<<<"d","j","a","n","g","o">>, <<"f","l","a","s","k">>, <<"f","a","s","t","a","p","i">>, <<"p","a","n","d","a","s">>, <<"p","o","s","t","g","r","e","s","q","l">>>>],
   [tech |-> <<"s","q","l"," ","s","e","r","v","e","r">>,
    related |-> <<<<"c","#">>, <<".","n","e","t">>, <<"a","z","u","r","e">>, <<"s","s","m","s">>, <<"t","-","s","q","l">>>>],
   [tech |-> <<"m","o","n","g","o","d","b">>,
    related |-> <<<<"n","o","d","e","j","s">>, <<"j","a","v","a","s","c","r","i","p","t">>, <<"e","x","p","r","e","s","s">>, <<"m","o","n","g","o","o","s","e">>>>],
   [tech |-> <<"p","o","s","t","g","r","e","s","q","l">>,
    related |-> <<<<"p","y","t","h","o","n">>, <<"d","j","a","n","g","o">>, <<"s","q","l">>>>],
   [tech |-> <<"c","o","s","m","o","s","d","b">>,
    related |-> <<<<"a","z","u","r","e">>, <<".","n","e","t">>, <<"n","o","s","q","l">>, <<"m","o","n","g","o","d","b">>>>],
   [tech |-> <<"a","z","u","r","e">>,
    related |-> <<<<".","n","e","t">>, <<"c","#">>, <<"s","q","l"," ","s","e","r","v","e","r">>, <<"c","o","s","m","o","s","d","b">>, <<"f","u","n","c","t","i","o","n","s">>, <<"a","p","p"," ","s","e","r","v","i","c","e">>>>],
   [tech |-> <<"a","w","s">>,
    related |-> <<<<"l","a","m","b","d","a">>, <<"e","c","2">>, <<"s","3">>, <<"r","d","s">>, <<"d","y","n","a","m","o","d","b">>>>],
   [tech |-> <<"d","o","c","k","e","r">>,
    related |-> <<<<"c","o","n","t","a","i","n","e","r","i","z","a","t","i","o","n">>, <<"k","u","b","e","r","n","e","t","e","s">>, <<"d","e","v","o","p","s">>, <<"c","i","/","c","d">>>>],
   [tech |-> <<"m","i","c","r","o","s","e","r","v","i","c","e","s">>,
    related |-> <<<<"a","p","i">>, <<"r","e","s","t">>, <<"d","o","c","k","e","r">>, <<"k","u","b","e","r","n","e","t","e","s">>, <<"c","l","o","u","d">>>>],
   [tech |-> <<"r","e","s","t"," ","a","p","i">>,
    related |-> <<<<"h","t","t","p">>, <<"j","s","o","n">>, <<"s","w","a","g","g","e","r">>, <<"p","o","s","t","m","a","n">>, <<"a","p","i">>>>],
   [tech |-> <<"m","v","c">>,
    related |-> <<<<"m","o","d","e","l">>, <<"v","i","e","w">>, <<"c","o","n","t","r","o","l","l","e","r">>, <<"a","s","p",".","n","e","t">>, <<"a","r","c","h","i","t","e","c","t","u","r","e">>>>]
  >>

project_indicators ==
  {<<"d","o","m","a","i","n">>, <<"r","o","l","e">>, <<"r","e","s","p","o","n","s","i","b","i","l","i","t","i","e","s">>, <<"t","e","c","h","n","o","l","o","g","i","e","s">>, <<"s","k","i","l","l","s">>, <<"b","u","i","l","t">>, <<"d","e","v","e","l","o","p","e","d">>, <<"i","m","p","l","e","m","e","n","t","e","d">>, <<"d","e","s","i","g","n","e","d">>, <<"c","r","e","a","t","e","d">>, <<"l","e","d">>, <<"m","a","n","a","g","e","d">>, <<"c","o","l","l","a","b","o","r","a","t","e","d">>, <<"d","e","l","i","v","e","r","e","d">>, <<"d","e","p","l","o","y","e","d">>}

technical_indicators ==
  {<<"p","r","o","g","r","a","m","m","i","n","g">>, <<"l","a","n","g","u","a","g","e">>, <<"f","r","a","m","e","w","o","r","k">>, <<"l","i","b","r","a","r","y">>, <<"t","o","o","l">>, <<"d","a","t","a","b","a","s","e">>, <<"c","l","o","u","d">>, <<"p","l","a","t","f","o","r","m">>, <<"a","p","i">>, <<"s","e","r","v","i","c","e">>, <<"a","r","c","h","i","t","e","c","t","u","r","e">>, <<"d","e","s","i","g","n">>, <<"p","a","t","t","e","r","n">>, <<"m","e","t","h","o","d","o","l","o","g","y">>}

experience_indicators ==
  {<<"y","e","a","r","s">>, <<"e","x","p","e","r","i","e","n","c","e">>, <<"e","x","p","e","r","t">>, <<"p","r","o","f","i","c","i","e","n","t">>, <<"s","k","i","l","l","e","d">>, <<"b","e","g","i","n","n","e","r">>, <<"i","n","t","e","r","m","e","d","i","a","t","e">>, <<"a","d","v","a","n","c","e","d">>, <<"s","e","n","i","o","r">>, <<"l","e","a","d">>}

\* self.tech_relationships.keys()
tech_keys == {tech_relationships[i].tech : i \in DOMAIN tech_relationships}

\* self.tech_relationships.get(skill, [])
related_of(skill) ==
  IF skill \in tech_keys
  THEN tech_relationships[CHOOSE i \in DOMAIN tech_relationships :
                            tech_relationships[i].tech = skill].related
  ELSE <<>>

\* ContextScorer._extract_technical_terms(text), text in lower case
_extract_technical_terms(text) ==
  {t \in tech_keys : str_in(t, text)}
  \cup dotted_matches(text, <<".","j","s">>)
  \cup dotted_matches(text, <<".","n","e","t">>)
  \cup tailed_matches(text, <<"s","q","l">>)
  \cup tailed_matches(text, <<"d","b">>)

\* the quality_boost of _calculate_relevance_score
quality_boost(content) ==
  LET content_lower == lower(content) IN
  (IF Len(content) > 50 THEN tenths(1) ELSE 0)
  + (IF any_in(technical_indicators, content_lower) THEN tenths(2) ELSE 0)
  + (IF any_in(project_indicators, content_lower)
     THEN tenths(1) + (tenths(1) \div 2) ELSE 0)
  + (IF any_in(experience_indicators, content_lower) THEN tenths(1) ELSE 0)

\* _calculate_relevance_score with the share of the query words that the
\* content lacks as word_score
_calculate_relevance_score_counting_misses(content, query_words, tech_terms) ==
  LET content_words == words_of(lower(content))
      word_score == share_tenths(Cardinality(query_words \ content_words),
                                 Cardinality(query_words), 4)
      tech_score == share_tenths(Cardinality(tech_terms \cap content_words),
                                 Cardinality(tech_terms), 5)
      final_score == word_score + tech_score + quality_boost(content)
                     + tenths(1)
  IN Min(final_score, ScoreUnit)

\* ContextScorer._calculate_relevance_score
_calculate_relevance_score(content, query_words, tech_terms) ==
  LET content_words == words_of(lower(content))
      word_score == share_tenths(Cardinality(query_words \cap content_words),
                                 Cardinality(query_words), 4)
      tech_score == share_tenths(Cardinality(tech_terms \cap content_words),
                                 Cardinality(tech_terms), 5)
      final_score == word_score + tech_score + quality_boost(content)
                     + tenths(1)
  IN Min(final_score, ScoreUnit)

\* ContextScorer._calculate_technical_score
_calculate_technical_score(content, tech_terms) ==
  LET content_lower == lower(content)
      tech_count == Cardinality({t \in tech_terms : str_in(t, content_lower)})
      tech_indicators_count ==
        Cardinality({t \in technical_indicators : str_in(t, content_lower)})
  IN Min(tenths(3) * tech_count + tenths(2) * tech_indicators_count, ScoreUnit)

\* ContextScorer._calculate_related_tech_boost, in tenths
_calculate_related_tech_boost(skill, tech_terms) ==
  LET related_techs == related_of(skill) IN
  Cardinality({i \in DOMAIN related_techs : related_techs[i] \in tech_terms})

\* ContextItem(content, source, item_type, metadata, relevance_score,
\* technical_score, project_score); of metadata the category and the skill
ContextItem(content, source, item_type, category, skill, relevance_score, technical_score, project_score) ==
  [content |-> content, source |-> source, item_type |-> item_type,
   category |-> category, skill |-> skill,
   relevance_score |-> relevance_score,
   technical_score |-> technical_score, project_score |-> project_score]

\* concatenation of a sequence of lists
RECURSIVE extend_all(_)
extend_all(lists) ==
  IF lists = <<>> THEN <<>> ELSE Head(lists) \o extend_all(Tail(lists))

\* ContextScorer._score_profile_items: profile is the sequence of the
\* dict's (key, value) pairs with string values
_score_profile_items(profile, query_words, tech_terms) ==
  LET fields == SelectSeq(profile,
                  LAMBDA f : f.key \notin {<<"a","t","t","a","c","h","m","e","n","t","s">>, <<"u","r","l","s">>}
                             /\ f.value # <<>>)
      item(f) ==
        LET content == f.key \o <<":"," ">> \o f.value
            score == _calculate_relevance_score(content, query_words, tech_terms)
        IN ContextItem(content, "profile", "profile_info", <<>>, <<>>,
             IF f.key = <<"p","r","o","f","i","l","e","_","s","u","m","m","a","r","y">> THEN times_tenths(score, 15)
             ELSE score,
             _calculate_technical_score(content, tech_terms), 0)
  IN [i \in 1..Len(fields) |-> item(fields[i])]

\* ContextScorer._score_skill_items: skills is the sequence of the dict's
\* (category, skill_list) pairs
_score_skill_items(skills, query_words, tech_terms) ==
  LET item(category, skill) ==
        LET content == <<"T","e","c","h","n","i","c","a","l"," ","S","k","i","l","l"," ","(">> \o category \o <<")",":"," ">> \o skill
            base_score == _calculate_relevance_score(content, query_words, tech_terms)
            skill_lower == lower(skill)
            exact == IF skill_lower \in tech_terms
                     THEN times_tenths(base_score, 20) ELSE base_score
            related_boost == _calculate_related_tech_boost(skill_lower, tech_terms)
        IN ContextItem(content, "skills", "technical_skill", category, skill,
             times_tenths(exact, 10 + related_boost),
             _calculate_technical_score(content, tech_terms), 0)
      of_category(c) ==
        [i \in 1..Len(c.skill_list) |-> item(c.category, c.skill_list[i])]
  IN extend_all([k \in 1..Len(skills) |-> of_category(skills[k])])

\* the query words that make a query project-related
scorer_project_keywords ==
  {<<"p","r","o","j","e","c","t">>, <<"b","u","i","l","t">>, <<"d","e","v","e","l","o","p","e","d">>, <<"w","o","r","k","e","d">>, <<"e","x","p","e","r","i","e","n","c","e">>, <<"p","o","r","t","f","o","l","i","o">>}

\* lines 246-251: the boosts of one project's technologies, one after the other
RECURSIVE technology_boosts(_, _, _, _)
technology_boosts(base_score, technologies, query_words, tech_terms) ==
  IF technologies = <<>> THEN base_score
  ELSE technology_boosts(
         IF lower(Head(technologies)) \in tech_terms
         THEN times_tenths(base_score, 18)
         ELSE IF lower(Head(technologies)) \in query_words
         THEN times_tenths(base_score, 15)
         ELSE base_score,
         Tail(technologies), query_words, tech_terms)

\* ContextScorer._score_project_items
_score_project_items(projects, query_words, tech_terms) ==
  LET item(project) ==
        LET project_name == project.domain
            technologies == project.related_skills
            content_parts ==
              (IF project_name # <<>> THEN <<<<"P","r","o","j","e","c","t",":"," ">> \o project_name>> ELSE <<>>)
              \o (IF project.role # <<>> THEN <<<<"R","o","l","e",":"," ">> \o project.role>> ELSE <<>>)
              \o (IF project.description # <<>>
                  THEN <<<<"D","e","s","c","r","i","p","t","i","o","n",":"," ">> \o project.description>> ELSE <<>>)
              \o (IF technologies # <<>>
                  THEN <<<<"T","e","c","h","n","o","l","o","g","i","e","s",":"," ">> \o join(<<","," ">>, technologies)>> ELSE <<>>)
            content == join(<<" ","|"," ">>, content_parts)
            base_score == _calculate_relevance_score(content, query_words, tech_terms)
            boosted == IF query_words \cap scorer_project_keywords # {}
                       THEN times_tenths(base_score, 25) ELSE base_score
            final == technology_boosts(boosted, technologies, query_words, tech_terms)
        IN ContextItem(content, "projects", "project", <<>>, <<>>, final,
             _calculate_technical_score(content, tech_terms),
             times_tenths(final, 8))
  IN [i \in 1..Len(projects) |-> item(projects[i])]

\* ContextScorer._score_activity_items
_score_activity_items(activities, query_words, tech_terms) ==
  LET item(activity) ==
        LET content ==
              IF activity.name # <<>> /\ activity.description # <<>>
              THEN <<"A","c","t","i","v","i","t","y",":"," ">> \o activity.name \o <<" ","-"," ">> \o activity.description
              ELSE <<"A","c","t","i","v","i","t","y",":"," ">> \o (IF activity.name # <<>> THEN activity.name
                                     ELSE activity.description)
        IN ContextItem(content, "activities", "activity", <<>>, <<>>,
             _calculate_relevance_score(content, query_words, tech_terms),
             _calculate_technical_score(content, tech_terms), tenths(2))
  IN [i \in 1..Len(activities) |-> item(activities[i])]

\* list.sort(key=relevance_score, reverse=True) puts an item before every
\* item of a lower score and keeps the items of one score in their order:
\* the position of item i of the list in the sorted list
sorted_position(items, i) ==
  1 + Cardinality({j \in DOMAIN items :
        \/ items[j].relevance_score > items[i].relevance_score
        \/ items[j].relevance_score = items[i].relevance_score /\ j < i})

\* a sort by ascending score that is reversed afterwards: the items of one
\* score end up in the reverse of their order
sort_by_relevance_then_reverse(items) ==
  [p \in 1..Len(items) |->
     items[CHOOSE i \in DOMAIN items :
             1 + Cardinality({j \in DOMAIN items :
                   \/ items[j].relevance_score > items[i].relevance_score
                   \/ items[j].relevance_score = items[i].relevance_score
                      /\ j > i}) = p]]

sort_by_relevance(items) ==
  [p \in 1..Len(items) |->
     items[CHOOSE i \in DOMAIN items : sorted_position(items, i) = p]]

\* lines 87-112 of score_context_items: the items in the order they are made
enumerate_context_items(kb, query) ==
  LET query_lower == lower(query)
      query_words == words_of(query_lower)
      query_tech_terms == _extract_technical_terms(query_lower)
  IN (IF kb.user_profile # <<>>
      THEN _score_profile_items(kb.user_profile, query_words, query_tech_terms)
      ELSE <<>>)
     \o (IF kb.technical_skills # <<>>
         THEN _score_skill_items(kb.technical_skills, query_words, query_tech_terms)
         ELSE <<>>)
     \o (IF kb.projects # <<>>
         THEN _score_project_items(kb.projects, query_words, query_tech_terms)
         ELSE <<>>)
     \o (IF kb.other_activities # <<>>
         THEN _score_activity_items(kb.other_activities, query_words, query_tech_terms)
         ELSE <<>>)

\* ContextScorer.score_context_items
score_context_items(kb, query) ==
  sort_by_relevance(enumerate_context_items(kb, query))

\* ------------------------------------------ knowledge bases and queries
Field(key, value) == [key |-> key, value |-> value]

Category(category, skill_list) == [category |-> category, skill_list |-> skill_list]

Project(domain, role, description, related_skills) ==
  [domain |-> domain, role |-> role, description |-> description,
   related_skills |-> related_skills]

Activity(name, description) == [name |-> name, description |-> description]

KnowledgeBase(user_profile, technical_skills, projects, other_activities) ==
  [user_profile |-> user_profile, technical_skills |-> technical_skills,
   projects |-> projects, other_activities |-> other_activities]

ProfileBasic ==
  <<Field(<<"n","a","m","e">>, <<"N","i","k","h","i","l">>), Field(<<"c","u","r","r","e","n","t","_","r","o","l","e">>, <<"S","e","n","i","o","r"," ","d","e","v","e","l","o","p","e","r">>)>>

ProfileFull ==
  ProfileBasic \o <<Field(<<"p","r","o","f","i","l","e","_","s","u","m","m","a","r","y">>, <<"A","n","g","u","l","a","r"," ","d","e","v","e","l","o","p","e","r"," ","i","n"," ","P","u","n","e">>)>>

SkillsFrontend == <<Category(<<"F","r","o","n","t","e","n","d">>, <<<<"A","n","g","u","l","a","r">>, <<"T","y","p","e","S","c","r","i","p","t">>>>)>>

SkillsBoth == SkillsFrontend \o <<Category(<<"B","a","c","k","e","n","d">>, <<<<"P","y","t","h","o","n">>>>)>>

P_dashboard ==
  Project(<<"A","n","g","u","l","a","r"," ","d","a","s","h","b","o","a","r","d">>, <<>>, <<>>, <<<<"A","n","g","u","l","a","r">>, <<"T","y","p","e","S","c","r","i","p","t">>>>)

P_billing == Project(<<"B","i","l","l","i","n","g"," ","p","o","r","t","a","l">>, <<"L","e","a","d">>, <<>>, <<<<"P","y","t","h","o","n">>, <<"A","n","g","u","l","a","r">>>>)

P_api == Project(<<"B","i","l","l","i","n","g"," ","A","P","I">>, <<"L","e","a","d">>, <<>>, <<<<"P","y","t","h","o","n">>, <<"A","n","g","u","l","a","r">>>>)

A_mentoring == Activity(<<"M","e","n","t","o","r","i","n","g">>, <<"W","e","e","k","l","y"," ","P","y","t","h","o","n"," ","s","e","s","s","i","o","n","s">>)

ProfileVueSummary == <<Field(<<"p","r","o","f","i","l","e","_","s","u","m","m","a","r","y">>, <<"V","u","e"," ","d","e","v","e","l","o","p","e","r"," ","i","n"," ","P","u","n","e">>)>>

ProfileVue == <<Field(<<"c","u","r","r","e","n","t","_","r","o","l","e">>, <<"V","u","e"," ","d","e","v","e","l","o","p","e","r">>)>> \o ProfileVueSummary

SkillsVue == <<Category(<<"F","r","o","n","t","e","n","d">>, <<<<"V","u","e">>, <<"V","u","e","x">>>>)>>

P_shop == Project(<<"O","n","l","i","n","e"," ","s","h","o","p"," ","f","o","r"," ","g","a","r","d","e","n"," ","f","u","r","n","i","t","u","r","e">>, <<>>, <<>>, <<<<"V","u","e","x">>>>)

KnowledgeBases ==
  {KnowledgeBase(p, s, j, a) :
     p \in {<<>>, ProfileBasic, ProfileFull},
     s \in {<<>>, SkillsFrontend, SkillsBoth},
     j \in {<<>>, <<P_dashboard>>, <<P_dashboard, P_billing>>,
            <<P_dashboard, P_api>>},
     a \in {<<>>, <<A_mentoring>>}}
  \cup {KnowledgeBase(p, SkillsVue, <<P_shop>>, <<>>) :
          p \in {<<>>, ProfileVueSummary, ProfileVue}}

Q_angular_projects == <<"W","h","a","t"," ","A","n","g","u","l","a","r"," ","p","r","o","j","e","c","t","s"," ","h","a","v","e"," ","I"," ","w","o","r","k","e","d"," ","o","n","?">>
Q_about_angular == <<"W","h","a","t"," ","a","b","o","u","t"," ","A","n","g","u","l","a","r","?">>
Q_two_terms == <<"a","n","g","u","l","a","r"," ","t","y","p","e","s","c","r","i","p","t">>
Q_explain == <<"E","x","p","l","a","i","n"," ","h","o","w"," ","I"," ","u","s","e","d"," ","P","y","t","h","o","n">>
Q_describe == <<"d","e","s","c","r","i","b","e"," ","a"," ","p","r","o","j","e","c","t">>
Q_analyze == <<"a","n","a","l","y","z","e"," ","m","y"," ","a","n","g","u","l","a","r"," ","p","r","o","j","e","c","t"," ","e","x","p","e","r","i","e","n","c","e">>
Q_vue_projects == <<"w","h","i","c","h"," ","p","r","o","j","e","c","t","s"," ","u","s","e"," ","v","u","e">>
Q_python == <<"W","h","a","t"," ","a","b","o","u","t"," ","P","y","t","h","o","n","?">>

Queries ==
  {Q_angular_projects, Q_about_angular, Q_two_terms, Q_explain, Q_describe,
   Q_analyze, Q_vue_projects, Q_python, Q_list, Q_project, Q_chat}

\* a call of score_context_items that has returned
Scored(kb, query) ==
  [fn |-> "score_context_items", data |-> kb, query |-> query,
   items |-> score_context_items(kb, query)]

ScoreContextItems ==
  \E kb \in KnowledgeBases, q \in Queries :
    /\ calc = NoCalc
    /\ calc' = Scored(kb, q)
    /\ UNCHANGED <<cacheVars, agentVars, vdbVars>>

ScorerNext == ScoreContextItems

SpecScorer ==
  /\ Init
  /\ [][ScorerNext]_vars

\* ------------------------------- _calculate_relevance_score, word by word
\* the most words a query grows to
MaxQueryWords == 3

RelevanceWords ==
  {<<"a","n","g","u","l","a","r">>, <<"t","y","p","e","s","c","r","i","p","t">>, <<"d","a","s","h","b","o","a","r","d">>, <<"p","y","t","h","o","n">>, <<"s","e","n","i","o","r">>, <<"r","e","a","c","t">>}

RelevanceContents ==
  {<<"T","e","c","h","n","i","c","a","l"," ","S","k","i","l","l"," ","(","F","r","o","n","t","e","n","d",")",":"," ","A","n","g","u","l","a","r">>,
   <<"P","r","o","j","e","c","t",":"," ","A","n","g","u","l","a","r"," ","d","a","s","h","b","o","a","r","d"," ","|"," ","T","e","c","h","n","o","l","o","g","i","e","s",":"," ","A","n","g","u","l","a","r",","," ","T","y","p","e","S","c","r","i","p","t">>,
   <<"c","u","r","r","e","n","t","_","r","o","l","e",":"," ","S","e","n","i","o","r"," ","d","e","v","e","l","o","p","e","r">>,
   <<"A","c","t","i","v","i","t","y",":"," ","M","e","n","t","o","r","i","n","g"," ","-"," ","W","e","e","k","l","y"," ","P","y","t","h","o","n"," ","s","e","s","s","i","o","n","s">>}

RelevanceTechTerms == {{}, {<<"a","n","g","u","l","a","r">>}, {<<"a","n","g","u","l","a","r">>, <<"t","y","p","e","s","c","r","i","p","t">>}}

\* _calculate_relevance_score of one content for a query's words and for
\* the words of a query that has those words and more
Relevance(content, query_words, more_words, tech_terms) ==
  [fn |-> "_calculate_relevance_score", content |-> content,
   query_words |-> query_words, more_words |-> more_words,
   tech_terms |-> tech_terms,
   score |-> _calculate_relevance_score(content, query_words, tech_terms),
   more_score |-> _calculate_relevance_score(content, more_words, tech_terms)]

RelevanceStart ==
  /\ calc = NoCalc
  /\ \E content \in RelevanceContents, tech_terms \in RelevanceTechTerms,
        query_words \in SUBSET RelevanceWords :
       /\ Cardinality(query_words) <= MaxQueryWords
       /\ calc' = Relevance(content, query_words, query_words, tech_terms)
  /\ UNCHANGED <<cacheVars, agentVars, vdbVars>>

RelevanceAddWord ==
  /\ calc.fn = "_calculate_relevance_score"
  /\ Cardinality(calc.more_words) < MaxQueryWords
  /\ \E word \in RelevanceWords \ calc.more_words :
       calc' = Relevance(calc.content, calc.query_words,
                         calc.more_words \cup {word}, calc.tech_terms)
  /\ UNCHANGED <<cacheVars, agentVars, vdbVars>>

RelevanceNext == RelevanceStart \/ RelevanceAddWord

SpecRelevance ==
  /\ Init
  /\ [][RelevanceNext]_vars

\* ------------------------------------------------ progressive_context.py
ContextLevel(name, max_items, min_score_threshold, include_activities) ==
  [name |-> name, max_items |-> max_items,
   min_score_threshold |-> min_score_threshold,
   include_activities |-> include_activities]

\* ProgressiveContextBuilder.context_levels
context_levels ==
  [minimal |-> ContextLevel("minimal", 3, tenths(6), FALSE),
   standard |-> ContextLevel("standard", 6, tenths(4), TRUE),
   comprehensive |-> ContextLevel("comprehensive", 10, tenths(2), TRUE),
   technical_deep |-> ContextLevel("technical_deep", 8, tenths(3), FALSE),
   project_focused |-> ContextLevel("project_focused", 7, tenths(3), FALSE)]

complex_indicators ==
  {<<"a","n","a","l","y","z","e">>, <<"c","o","m","p","a","r","e">>, <<"e","v","a","l","u","a","t","e">>, <<"a","s","s","e","s","s","m","e","n","t">>, <<"d","e","t","a","i","l","e","d">>, <<"c","o","m","p","r","e","h","e","n","s","i","v","e">>, <<"i","n","-","d","e","p","t","h">>, <<"b","r","e","a","k","d","o","w","n">>, <<"e","x","p","l","a","i","n"," ","h","o","w">>}

simple_indicators ==
  {<<"w","h","a","t">>, <<"w","h","i","c","h">>, <<"d","o"," ","i"," ","h","a","v","e">>, <<"l","i","s","t">>, <<"s","h","o","w"," ","m","e">>, <<"q","u","i","c","k">>}

tech_keywords ==
  {<<"t","e","c","h","n","o","l","o","g","y">>, <<"t","e","c","h">>, <<"s","k","i","l","l">>, <<"p","r","o","g","r","a","m","m","i","n","g">>, <<"l","a","n","g","u","a","g","e">>, <<"f","r","a","m","e","w","o","r","k">>, <<"l","i","b","r","a","r","y">>, <<"t","o","o","l">>, <<"p","l","a","t","f","o","r","m">>, <<"s","t","a","c","k">>}

project_keywords ==
  {<<"p","r","o","j","e","c","t">>, <<"b","u","i","l","t">>, <<"d","e","v","e","l","o","p","e","d">>, <<"w","o","r","k","e","d"," ","o","n">>, <<"p","o","r","t","f","o","l","i","o">>, <<"e","x","p","e","r","i","e","n","c","e"," ","w","i","t","h">>, <<"u","s","e","d"," ","i","n">>}

experience_keywords ==
  {<<"e","x","p","e","r","i","e","n","c","e">>, <<"y","e","a","r","s">>, <<"h","o","w"," ","l","o","n","g">>, <<"p","r","o","f","i","c","i","e","n","c","y">>, <<"l","e","v","e","l">>, <<"e","x","p","e","r","t">>, <<"b","e","g","i","n","n","e","r">>, <<"a","d","v","a","n","c","e","d">>}

analysis_words == {<<"a","n","a","l","y","z","e">>, <<"a","s","s","e","s","s","m","e","n","t">>, <<"s","t","r","e","n","g","t","h","s">>, <<"w","e","a","k","n","e","s","s","e","s">>}

recommendation_words == {<<"s","u","g","g","e","s","t">>, <<"r","e","c","o","m","m","e","n","d">>, <<"a","d","v","i","c","e">>, <<"s","h","o","u","l","d">>}

factual_words == {<<"w","h","a","t">>, <<"w","h","i","c","h">>, <<"l","i","s","t">>, <<"s","h","o","w">>}

explanatory_words == {<<"h","o","w">>, <<"e","x","p","l","a","i","n">>, <<"d","e","s","c","r","i","b","e">>}

\* lines 125-140: the complexity the wording of the query gives
wording_complexity(query_lower) ==
  IF any_in(complex_indicators, query_lower) THEN "comprehensive"
  ELSE IF any_in(simple_indicators, query_lower) THEN "minimal"
  ELSE "standard"

\* ProgressiveContextBuilder._analyze_query_requirements
_analyze_query_requirements(query) ==
  LET query_lower == lower(query)
      worded == wording_complexity(query_lower)
      needs_technical_detail == any_in(tech_keywords, query_lower)
      after_technical == IF needs_technical_detail THEN "technical_deep" ELSE worded
      needs_project_detail == any_in(project_keywords, query_lower)
  IN [complexity_level |->
        IF needs_project_detail /\ after_technical = "standard"
        THEN "project_focused" ELSE after_technical,
      needs_technical_detail |-> needs_technical_detail,
      needs_project_detail |-> needs_project_detail,
      needs_experience_detail |-> any_in(experience_keywords, query_lower),
      specific_technologies |->
        LET mentioned == SelectSeq(tech_relationships,
                                   LAMBDA r : str_in(r.tech, query_lower))
        IN [i \in 1..Len(mentioned) |-> mentioned[i].tech],
      specific_projects |-> <<>>,
      query_type |->
        IF any_in(analysis_words, query_lower) THEN "analysis"
        ELSE IF any_in(recommendation_words, query_lower) THEN "recommendation"
        ELSE IF any_in(factual_words, query_lower) THEN "factual"
        ELSE IF any_in(explanatory_words, query_lower) THEN "explanatory"
        ELSE "general",
      expected_response_length |->
        IF worded = "comprehensive" THEN "long"
        ELSE IF worded = "minimal" THEN "short" ELSE "medium"]

\* ProgressiveContextBuilder._select_context_level
_select_context_level(requirements, context_items) ==
  LET high_relevance_items ==
        SelectSeq(context_items, LAMBDA item : item.relevance_score > tenths(7))
      complexity ==
        IF Len(high_relevance_items) < 2
           /\ requirements.complexity_level = "comprehensive"
        THEN "standard"
        ELSE IF Len(high_relevance_items) > 8
                /\ requirements.complexity_level = "minimal"
        THEN "standard"
        ELSE requirements.complexity_level
  IN context_levels[complexity]

\* items[:n]
take(items, n) == SubSeq(items, 1, Min(n, Len(items)))

\* lines 231-237: the first item of each content, in order
RECURSIVE unique_by_content(_, _)
unique_by_content(items, seen_content) ==
  IF items = <<>> THEN <<>>
  ELSE IF Head(items).content \in seen_content
  THEN unique_by_content(Tail(items), seen_content)
  ELSE <<Head(items)>>
       \o unique_by_content(Tail(items), seen_content \cup {Head(items).content})

\* lines 242-245: fill the remaining slots with the highest scoring items
RECURSIVE fill_slots(_, _, _)
fill_slots(unique_prioritized, filtered_items, max_items) ==
  IF filtered_items = <<>> THEN unique_prioritized
  ELSE fill_slots(
         IF /\ \A i \in DOMAIN unique_prioritized :
                 unique_prioritized[i].content # Head(filtered_items).content
            /\ Len(unique_prioritized) < max_items
         THEN Append(unique_prioritized, Head(filtered_items))
         ELSE unique_prioritized,
         Tail(filtered_items), max_items)

\* ProgressiveContextBuilder._select_context_items
_select_context_items(all_items, level, requirements) ==
  LET above == SelectSeq(all_items,
                 LAMBDA item : item.relevance_score >= level.min_score_threshold)
      filtered_items ==
        IF ~level.include_activities
        THEN SelectSeq(above, LAMBDA item : item.source # "activities")
        ELSE above
      tech_items ==
        SelectSeq(filtered_items, LAMBDA item : item.technical_score > tenths(3))
      project_items ==
        SelectSeq(filtered_items, LAMBDA item : item.project_score > tenths(3))
      prioritized_items ==
        (IF requirements.needs_technical_detail
         THEN take(tech_items, level.max_items \div 2) ELSE <<>>)
        \o (IF requirements.needs_project_detail
            THEN take(project_items, level.max_items \div 2) ELSE <<>>)
      unique_prioritized == unique_by_content(prioritized_items, {})
      remaining_slots == level.max_items - Len(unique_prioritized)
      filled == IF remaining_slots > 0
                THEN fill_slots(unique_prioritized, filtered_items, level.max_items)
                ELSE unique_prioritized
  IN take(filled, level.max_items)

\* ContextScorer.validate_critical_context
validate_critical_context(context_items, query) ==
  LET query_lower == lower(query)
      has_technical_context ==
        \E i \in DOMAIN context_items :
          context_items[i].technical_score > tenths(3)
      has_project_context ==
        \E i \in DOMAIN context_items :
          context_items[i].project_score > tenths(3)
      project_missing == str_in(<<"p","r","o","j","e","c","t">>, query_lower) /\ ~has_project_context
      technical_missing == any_in(tech_keys, query_lower) /\ ~has_technical_context
  IN [has_technical_context |-> has_technical_context,
      has_project_context |-> has_project_context,
      has_experience_context |->
        \E i \in DOMAIN context_items :
          \/ str_in(<<"e","x","p","e","r","i","e","n","c","e">>, lower(context_items[i].content))
          \/ str_in(<<"y","e","a","r","s">>, lower(context_items[i].content)),
      missing_critical_info |->
        (IF project_missing THEN <<"project_details">> ELSE <<>>)
        \o (IF technical_missing THEN <<"technical_details">> ELSE <<>>),
      recommendations |->
        (IF project_missing
         THEN <<<<"I","n","c","l","u","d","e"," ","m","o","r","e"," ","p","r","o","j","e","c","t","-","s","p","e","c","i","f","i","c"," ","c","o","n","t","e","x","t">>>> ELSE <<>>)
        \o (IF technical_missing
            THEN <<<<"I","n","c","l","u","d","e"," ","m","o","r","e"," ","t","e","c","h","n","i","c","a","l"," ","s","k","i","l","l"," ","c","o","n","t","e","x","t">>>> ELSE <<>>)]

\* `info in missing_info`
listed(info, missing_info) ==
  \E i \in DOMAIN missing_info : missing_info[i] = info

\* _add_missing_critical_context without the limit on the combined items
_add_missing_critical_context_uncapped(all_items, selected_items, validation_result, level) ==
  LET missing_info == validation_result.missing_critical_info
      current_content ==
        {selected_items[i].content : i \in DOMAIN selected_items}
      tech_items ==
        SelectSeq(all_items,
          LAMBDA item : item.technical_score > tenths(2)
                        /\ item.content \notin current_content)
      project_items ==
        SelectSeq(all_items,
          LAMBDA item : item.project_score > tenths(2)
                        /\ item.content \notin current_content)
      additional_items ==
        (IF listed("technical_details", missing_info)
         THEN take(tech_items, 2) ELSE <<>>)
        \o (IF listed("project_details", missing_info)
            THEN take(project_items, 2) ELSE <<>>)
  IN selected_items \o additional_items

\* ProgressiveContextBuilder._add_missing_critical_context
_add_missing_critical_context(all_items, selected_items, validation_result, level) ==
  LET missing_info == validation_result.missing_critical_info
      current_content ==
        {selected_items[i].content : i \in DOMAIN selected_items}
      tech_items ==
        SelectSeq(all_items,
          LAMBDA item : item.technical_score > tenths(2)
                        /\ item.content \notin current_content)
      project_items ==
        SelectSeq(all_items,
          LAMBDA item : item.project_score > tenths(2)
                        /\ item.content \notin current_content)
      additional_items ==
        (IF listed("technical_details", missing_info)
         THEN take(tech_items, 2) ELSE <<>>)
        \o (IF listed("project_details", missing_info)
            THEN take(project_items, 2) ELSE <<>>)
      combined_items == selected_items \o additional_items
      max_items == Min(level.max_items + 2, 12)
  IN take(combined_items, max_items)

\* the items of one source, in their order
of_source(context_items, source) ==
  SelectSeq(context_items, LAMBDA item : item.source = source)

\* content.split(': ', 1) of a content that holds ': '
split_once(content, sep) ==
  LET at == CHOOSE i \in 1..Len(content) :
              /\ SubSeq(content, i, i + Len(sep) - 1) = sep
              /\ \A j \in 1..(i - 1) : SubSeq(content, j, j + Len(sep) - 1) # sep
  IN <<SubSeq(content, 1, at - 1), SubSeq(content, at + Len(sep), Len(content))>>

\* lines 298-308: the text of one profile item
profile_text(item) ==
  IF str_in(<<":"," ">>, item.content)
  THEN LET parts == split_once(item.content, <<":"," ">>) IN
       IF lower(parts[1]) = <<"p","r","o","f","i","l","e","_","s","u","m","m","a","r","y">>
       THEN <<"B","a","c","k","g","r","o","u","n","d",":"," ">> \o parts[2]
       ELSE parts[1] \o <<":"," ">> \o parts[2]
  ELSE item.content

\* the keys of skills_by_category, in the order of their insertion
RECURSIVE categories_of(_, _)
categories_of(skill_items, seen) ==
  IF skill_items = <<>> THEN <<>>
  ELSE IF Head(skill_items).category \in seen
  THEN categories_of(Tail(skill_items), seen)
  ELSE <<Head(skill_items).category>>
       \o categories_of(Tail(skill_items), seen \cup {Head(skill_items).category})

\* lines 316-330: the text of the skill items
skills_text(skill_items) ==
  LET categories == categories_of(skill_items, {})
      skills(category) ==
        LET named == SelectSeq(skill_items,
                       LAMBDA item : item.category = category /\ item.skill # <<>>)
        IN [i \in 1..Len(named) |-> named[i].skill]
      with_skills == SelectSeq(categories, LAMBDA category : skills(category) # <<>>)
  IN join(<<" ","|"," ">>, [i \in 1..Len(with_skills) |->
                     with_skills[i] \o <<":"," ">> \o join(<<","," ">>, skills(with_skills[i]))])

\* lines 336-342: the text of one project item
project_text(item) ==
  IF str_in(<<"P","r","o","j","e","c","t",":">>, item.content)
  THEN replace(item.content, <<" ","|"," ">>, <<" ","-"," ">>)
  ELSE item.content

\* ProgressiveContextBuilder._format_context: the dict, as a function of the
\* sources that have items
_format_context(context_items, requirements) ==
  LET sources == {context_items[i].source : i \in DOMAIN context_items}
      texts(items, Text(_)) == [i \in 1..Len(items) |-> Text(items[i])]
      content_of(item) == item.content
  IN [source \in sources |->
        IF source = "profile"
        THEN join(<<" ","|"," ">>, texts(of_source(context_items, "profile"), profile_text))
        ELSE IF source = "skills"
        THEN skills_text(of_source(context_items, "skills"))
        ELSE IF source = "projects"
        THEN join(<<" ","|"," ">>, texts(of_source(context_items, "projects"), project_text))
        ELSE join(<<" ","|"," ">>, texts(of_source(context_items, "activities"), content_of))]

\* sum(item.relevance_score for item in items)
RECURSIVE sum_relevance(_)
sum_relevance(items) ==
  IF items = <<>> THEN 0
  ELSE Head(items).relevance_score + sum_relevance(Tail(items))

\* lines 96-108 of build_context: the dict returned, with the average
\* relevance as a whole number of ScoreUnit-ths
bundle_of(formatted_context, context_level, selected_items, validation_result, context_requirements, all_context_items) ==
  [context |-> formatted_context,
   context_level |-> context_level.name,
   items_used |-> Len(selected_items),
   validation_result |-> validation_result,
   requirements |-> context_requirements,
   build_metadata |->
     [total_items_available |-> Len(all_context_items),
      avg_relevance_score |->
        IF selected_items # <<>>
        THEN sum_relevance(selected_items) \div Len(selected_items) ELSE 0,
      technical_items |->
        Len(SelectSeq(selected_items,
                      LAMBDA item : item.technical_score > tenths(3))),
      project_items |->
        Len(SelectSeq(selected_items,
                      LAMBDA item : item.project_score > tenths(3)))]]

\* a call of build_context that has returned: what it was given, its locals
\* (the items in the order they were made among them), the dict returned,
\* and the dict that a call before it returned
Built(kb, query, enumerated, all_context_items, context_level, selected_items, validation_result, bundle, before) ==
  [fn |-> "build_context", data |-> kb, query |-> query,
   enumerated |-> enumerated, all_context_items |-> all_context_items,
   level |-> context_level, selected_items |-> selected_items,
   validation_result |-> validation_result, bundle |-> bundle,
   before |-> before]

\* ProgressiveContextBuilder.build_context, step by step as the code has it
build_context(kb, query, before) ==
  \E context_requirements \in {_analyze_query_requirements(query)},
     enumerated \in {enumerate_context_items(kb, query)} :
    \E all_context_items \in {sort_by_relevance(enumerated)} :
      \E context_level \in {_select_context_level(context_requirements, all_context_items)} :
        \E selected \in {_select_context_items(all_context_items, context_level, context_requirements)} :
          \E validation_result \in {validate_critical_context(selected, query)} :
            \E selected_items \in
                 {IF validation_result.missing_critical_info # <<>>
                  THEN _add_missing_critical_context(all_context_items, selected,
                                                     validation_result, context_level)
                  ELSE selected} :
              \E formatted_context \in {_format_context(selected_items, context_requirements)} :
                calc' = Built(kb, query, enumerated, all_context_items,
                              context_level, selected_items, validation_result,
                              bundle_of(formatted_context, context_level,
                                        selected_items, validation_result,
                                        context_requirements, all_context_items),
                              before)

BuildContext ==
  /\ calc = NoCalc
  /\ \E kb \in KnowledgeBases, q \in Queries : build_context(kb, q, None)
  /\ UNCHANGED <<cacheVars, agentVars, vdbVars>>

\* the same call once more, nothing having changed
BuildContextAgain ==
  /\ calc.fn = "build_context"
  /\ calc.before = None
  /\ build_context(calc.data, calc.query, Some(calc.bundle))
  /\ UNCHANGED <<cacheVars, agentVars, vdbVars>>

BuildNext == BuildContext \/ BuildContextAgain

SpecBuild ==
  /\ Init
  /\ [][BuildNext]_vars
\* ------------------------------------------------- ContextValidator
ValidationIssue(severity, category, message, suggestion) ==
  [severity |-> severity, category |-> category, message |-> message,
   suggestion |-> suggestion]

\* self.critical_tech_pairs, in the order of the dict
critical_tech_pairs ==
  << <<<<"a","n","g","u","l","a","r">>, <<"t","y","p","e","s","c","r","i","p","t">>, <<"A","n","g","u","l","a","r"," ","p","r","o","j","e","c","t","s"," ","t","y","p","i","c","a","l","l","y"," ","u","s","e"," ","T","y","p","e","S","c","r","i","p","t">>>>,
     <<<<".","n","e","t">>, <<"c","#">>, <<".","N","E","T"," ","d","e","v","e","l","o","p","m","e","n","t"," ","u","s","e","s"," ","C","#"," ","p","r","o","g","r","a","m","m","i","n","g"," ","l","a","n","g","u","a","g","e">>>>,
     <<<<"r","e","a","c","t">>, <<"j","a","v","a","s","c","r","i","p","t">>, <<"R","e","a","c","t"," ","d","e","v","e","l","o","p","m","e","n","t"," ","u","s","e","s"," ","J","a","v","a","S","c","r","i","p","t","/","T","y","p","e","S","c","r","i","p","t">>>>,
     <<<<"s","q","l"," ","s","e","r","v","e","r">>, <<".","n","e","t">>, <<"S","Q","L"," ","S","e","r","v","e","r"," ","c","o","m","m","o","n","l","y"," ","u","s","e","d"," ","w","i","t","h"," ",".","N","E","T"," ","a","p","p","l","i","c","a","t","i","o","n","s">>>>,
     <<<<"a","z","u","r","e">>, <<".","n","e","t">>, <<"A","z","u","r","e"," ","c","l","o","u","d"," ","p","l","a","t","f","o","r","m"," ","i","n","t","e","g","r","a","t","e","s"," ","w","e","l","l"," ","w","i","t","h"," ",".","N","E","T">>>>,
     <<<<"m","o","n","g","o","d","b">>, <<"n","o","d","e","j","s">>, <<"M","o","n","g","o","D","B"," ","c","o","m","m","o","n","l","y"," ","u","s","e","d"," ","w","i","t","h"," ","N","o","d","e",".","j","s"," ","a","p","p","l","i","c","a","t","i","o","n","s">>>>,
     <<<<"d","o","c","k","e","r">>, <<"c","o","n","t","a","i","n","e","r","i","z","a","t","i","o","n">>, <<"D","o","c","k","e","r"," ","i","s"," ","a"," ","c","o","n","t","a","i","n","e","r","i","z","a","t","i","o","n"," ","t","e","c","h","n","o","l","o","g","y">>>> >>

\* self.context_dependent_terms, in the order of the dict
context_dependent_terms ==
  << <<<<"a","p","i">>, <<<<"r","e","s","t">>, <<"g","r","a","p","h","q","l">>, <<"s","o","a","p">>, <<"m","i","c","r","o","s","e","r","v","i","c","e","s">>>> >>,
     <<<<"d","a","t","a","b","a","s","e">>, <<<<"s","q","l">>, <<"n","o","s","q","l">>, <<"m","o","n","g","o","d","b">>, <<"s","q","l"," ","s","e","r","v","e","r">>, <<"p","o","s","t","g","r","e","s","q","l">>>> >>,
     <<<<"c","l","o","u","d">>, <<<<"a","z","u","r","e">>, <<"a","w","s">>, <<"g","c","p">>, <<"s","a","a","s">>, <<"p","a","a","s">>, <<"i","a","a","s">>>> >>,
     <<<<"f","r","o","n","t","e","n","d">>, <<<<"a","n","g","u","l","a","r">>, <<"r","e","a","c","t">>, <<"v","u","e">>, <<"j","a","v","a","s","c","r","i","p","t">>, <<"t","y","p","e","s","c","r","i","p","t">>>> >>,
     <<<<"b","a","c","k","e","n","d">>, <<<<".","n","e","t">>, <<"n","o","d","e","j","s">>, <<"p","y","t","h","o","n">>, <<"j","a","v","a">>, <<"s","p","r","i","n","g">>>> >>,
     <<<<"d","e","v","o","p","s">>, <<<<"d","o","c","k","e","r">>, <<"k","u","b","e","r","n","e","t","e","s">>, <<"c","i","/","c","d">>, <<"a","z","u","r","e"," ","d","e","v","o","p","s">>, <<"j","e","n","k","i","n","s">>>> >> >>

\* self.experience_indicators without the first pattern, which is
\* years_pattern below
experience_words ==
  {<<"e","x","p","e","r","t">>, <<"p","r","o","f","i","c","i","e","n","t">>, <<"e","x","p","e","r","i","e","n","c","e","d">>, <<"s","k","i","l","l","e","d">>, <<"a","d","v","a","n","c","e","d">>,
   <<"i","n","t","e","r","m","e","d","i","a","t","e">>, <<"b","e","g","i","n","n","e","r">>, <<"s","e","n","i","o","r">>, <<"l","e","a","d">>, <<"a","r","c","h","i","t","e","c","t">>}

role_indicators ==
  {<<"l","e","d">>, <<"m","a","n","a","g","e","d">>, <<"d","e","s","i","g","n","e","d">>, <<"a","r","c","h","i","t","e","c","t","e","d">>, <<"d","e","v","e","l","o","p","e","d">>,
   <<"i","m","p","l","e","m","e","n","t","e","d">>, <<"c","r","e","a","t","e","d">>, <<"b","u","i","l","t">>, <<"d","e","l","i","v","e","r","e","d">>, <<"d","e","p","l","o","y","e","d">>,
   <<"m","a","i","n","t","a","i","n","e","d">>, <<"o","p","t","i","m","i","z","e","d">>, <<"i","n","t","e","g","r","a","t","e","d">>, <<"c","o","l","l","a","b","o","r","a","t","e","d">>}

\* the keys of a context dict in the order in which _format_context inserts them
section_order == <<"profile", "skills", "projects", "activities">>

\* list(context.values())
context_values(context) ==
  LET present == SelectSeq(section_order, LAMBDA key : key \in DOMAIN context)
  IN [i \in 1..Len(present) |-> context[present[i]]]

\* context.get(key, '')
context_get(context, key) == IF key \in DOMAIN context THEN context[key] ELSE <<>>

\* 'key' not in context or not context['key'].strip()
section_blank(context, key) ==
  key \notin DOMAIN context \/ strip(context[key]) = <<>>

\* sum(len(text) for text in context.values())
RECURSIVE total_length(_)
total_length(texts) ==
  IF texts = <<>> THEN 0 ELSE Len(Head(texts)) + total_length(Tail(texts))

SparseContextLength == 100

\* the issue of a check that found something, none otherwise
issue_if(found, issue) == IF found THEN <<issue>> ELSE <<>>

\* ContextValidator._validate_completeness
_validate_completeness(context, original_data, query) ==
  LET query_lower == lower(query) IN
  issue_if(str_in(<<"p","r","o","j","e","c","t">>, query_lower) /\ section_blank(context, "projects"),
           ValidationIssue("critical", "missing_context",
             <<"Q","u","e","r","y"," ","a","s","k","s"," ","a","b","o","u","t"," ","p","r","o","j","e","c","t","s"," ","b","u","t"," ","n","o"," ","p","r","o","j","e","c","t"," ","c","o","n","t","e","x","t"," ","p","r","o","v","i","d","e","d">>,
             <<"I","n","c","l","u","d","e"," ","r","e","l","e","v","a","n","t"," ","p","r","o","j","e","c","t"," ","i","n","f","o","r","m","a","t","i","o","n">>))
  \o issue_if(any_in({<<"s","k","i","l","l">>, <<"t","e","c","h","n","o","l","o","g","y">>, <<"t","e","c","h">>}, query_lower)
                /\ section_blank(context, "skills"),
           ValidationIssue("critical", "missing_context",
             <<"Q","u","e","r","y"," ","a","s","k","s"," ","a","b","o","u","t"," ","s","k","i","l","l","s"," ","b","u","t"," ","n","o"," ","s","k","i","l","l","s"," ","c","o","n","t","e","x","t"," ","p","r","o","v","i","d","e","d">>,
             <<"I","n","c","l","u","d","e"," ","r","e","l","e","v","a","n","t"," ","t","e","c","h","n","i","c","a","l"," ","s","k","i","l","l","s"," ","i","n","f","o","r","m","a","t","i","o","n">>))
  \o issue_if(any_in({<<"e","x","p","e","r","i","e","n","c","e">>, <<"b","a","c","k","g","r","o","u","n","d">>, <<"p","r","o","f","i","l","e">>}, query_lower)
                /\ section_blank(context, "profile"),
           ValidationIssue("warning", "missing_context",
             <<"Q","u","e","r","y"," ","a","s","k","s"," ","a","b","o","u","t"," ","e","x","p","e","r","i","e","n","c","e"," ","b","u","t"," ","l","i","m","i","t","e","d"," ","p","r","o","f","i","l","e"," ","c","o","n","t","e","x","t"," ","p","r","o","v","i","d","e","d">>,
             <<"I","n","c","l","u","d","e"," ","m","o","r","e"," ","c","o","m","p","r","e","h","e","n","s","i","v","e"," ","p","r","o","f","i","l","e"," ","i","n","f","o","r","m","a","t","i","o","n">>))
  \o issue_if(total_length(context_values(context)) < SparseContextLength,
           ValidationIssue("warning", "missing_context",
             <<"C","o","n","t","e","x","t"," ","s","e","e","m","s"," ","t","o","o"," ","b","r","i","e","f"," ","f","o","r"," ","a","c","c","u","r","a","t","e"," ","r","e","s","p","o","n","s","e">>,
             <<"I","n","c","l","u","d","e"," ","m","o","r","e"," ","d","e","t","a","i","l","e","d"," ","c","o","n","t","e","x","t"," ","i","n","f","o","r","m","a","t","i","o","n">>))

\* str.upper() of one character
upper_char(c) ==
  IF \E u \in DOMAIN LowerOf : LowerOf[u] = c
  THEN CHOOSE u \in DOMAIN LowerOf : LowerOf[u] = c
  ELSE c

is_letter(c) == c \in DOMAIN LowerOf \/ \E u \in DOMAIN LowerOf : LowerOf[u] = c

\* str.title(): a letter after a character that is no letter in upper case,
\* every other letter in lower case
title(s) ==
  SubSeq([i \in 1..Len(s) |->
            IF i = 1 \/ ~is_letter(s[i - 1])
            THEN upper_char(s[i]) ELSE lower_char(s[i])], 1, Len(s))

\* ' '.join(context.values())
context_text_of(context) == join(<<" ">>, context_values(context))

\* lines 126-138: the pairs of which the query and the context hold the
\* first technology and the context lacks the second
broken_pairs(context, query_lower) ==
  LET context_text == lower(context_text_of(context)) IN
  SelectSeq(critical_tech_pairs,
            LAMBDA pair : /\ str_in(pair[1], query_lower)
                          /\ str_in(pair[1], context_text)
                          /\ ~str_in(pair[2], context_text))

\* lines 141-153: the parent terms that the query and the skills text hold
\* without any of their technologies
isolated_terms(context, query_lower) ==
  LET skills_text_lower == lower(context_get(context, "skills")) IN
  SelectSeq(context_dependent_terms,
            LAMBDA entry : /\ str_in(entry[1], query_lower)
                           /\ str_in(entry[1], skills_text_lower)
                           /\ ~any_in({entry[2][i] : i \in DOMAIN entry[2]},
                                      skills_text_lower))

\* ContextValidator._validate_technical_accuracy
_validate_technical_accuracy(context, original_data, query) ==
  LET query_lower == lower(query)
      broken == broken_pairs(context, query_lower)
      isolated == isolated_terms(context, query_lower)
  IN [i \in 1..Len(broken) |->
        ValidationIssue("warning", "technical_accuracy",
          <<"Q","u","e","r","y"," ","m","e","n","t","i","o","n","s"," ">> \o broken[i][1] \o <<" ","b","u","t"," ","r","e","l","a","t","e","d"," ">> \o broken[i][2]
            \o <<" ","c","o","n","t","e","x","t"," ","i","s"," ","m","i","s","s","i","n","g">>,
          <<"I","n","c","l","u","d","e"," ">> \o broken[i][2] \o <<" ","c","o","n","t","e","x","t"," ","b","e","c","a","u","s","e"," ">> \o broken[i][3])]
     \o [i \in 1..Len(isolated) |->
        ValidationIssue("info", "technical_accuracy",
          title(isolated[i][1]) \o <<" ","m","e","n","t","i","o","n","e","d"," ","w","i","t","h","o","u","t"," ","s","p","e","c","i","f","i","c"," ","t","e","c","h","n","o","l","o","g","i","e","s">>,
          <<"I","n","c","l","u","d","e"," ","s","p","e","c","i","f","i","c"," ">> \o isolated[i][1] \o <<" ","t","e","c","h","n","o","l","o","g","i","e","s",":"," ">>
            \o join(<<","," ">>, take(isolated[i][2], 3)))]

\* the alternatives of the pattern of line 217
project_tech_names ==
  <<<<"a","n","g","u","l","a","r">>, <<"r","e","a","c","t">>, <<"v","u","e">>, <<".","n","e","t">>, <<"c","#">>, <<"j","a","v","a","s","c","r","i","p","t">>, <<"t","y","p","e","s","c","r","i","p","t">>,
    <<"p","y","t","h","o","n">>, <<"j","a","v","a">>, <<"s","q","l">>, <<"m","o","n","g","o","d","b">>, <<"a","z","u","r","e">>, <<"a","w","s">>>>

\* \b before position i of text
boundary_at(text, i) ==
  LET before == i > 1 /\ i - 1 <= Len(text) /\ is_word_char(text[i - 1])
      after == i >= 1 /\ i <= Len(text) /\ is_word_char(text[i])
  IN before # after

\* set(re.findall(r'\b(?:angular|...|aws)\b', text))
project_techs_in(text) ==
  {project_tech_names[n] : n \in
     {k \in DOMAIN project_tech_names :
        \E i \in 1..(Len(text) - Len(project_tech_names[k]) + 1) :
          /\ SubSeq(text, i, i + Len(project_tech_names[k]) - 1) = project_tech_names[k]
          /\ boundary_at(text, i)
          /\ boundary_at(text, i + Len(project_tech_names[k]))}}

\* lines 213-222: the technologies of the projects text that the skills
\* text lacks
missing_in_skills(context) ==
  IF "projects" \in DOMAIN context /\ "skills" \in DOMAIN context
  THEN {tech \in project_techs_in(lower(context["projects"])) :
          ~str_in(tech, lower(context["skills"]))}
  ELSE {}

MaxMissingInSkills == 3

\* the orders in which the iteration over a set of at most three strings
\* can yield its elements; the build does not fix the order
iterations_of(strings) ==
  {order \in UNION {[1..n -> strings] : n \in {Cardinality(strings)}} :
     \A i, j \in DOMAIN order : i # j => order[i] # order[j]}

\* ContextValidator._validate_consistency, the set of line 220 having been
\* iterated in the order given
_validate_consistency(context, iteration) ==
  LET missing == missing_in_skills(context) IN
  issue_if(missing # {} /\ Cardinality(missing) <= MaxMissingInSkills,
           ValidationIssue("info", "consistency",
             <<"T","e","c","h","n","o","l","o","g","i","e","s"," ","m","e","n","t","i","o","n","e","d"," ","i","n"," ","p","r","o","j","e","c","t","s"," ","b","u","t"," ","n","o","t"," ","i","n"," ","s","k","i","l","l","s",":"," ">>
               \o join(<<","," ">>, iteration),
             <<"E","n","s","u","r","e"," ","p","r","o","j","e","c","t"," ","t","e","c","h","n","o","l","o","g","i","e","s"," ","a","r","e"," ","r","e","f","l","e","c","t","e","d"," ","i","n"," ","s","k","i","l","l","s"," ","s","e","c","t","i","o","n">>))

\* re.search(r'\d+\s*\+?\s*years?', text, re.IGNORECASE): a digit, then
\* whitespace, at most one '+' and whitespace, then 'year'
years_pattern_found(text) ==
  LET text_lower == lower(text)
      digits == {Digits[i] : i \in DOMAIN Digits}
  IN \E d \in 1..Len(text), y \in 1..(Len(text) - 3) :
       /\ d < y
       /\ text[d] \in digits
       /\ SubSeq(text_lower, y, y + 3) = <<"y","e","a","r">>
       /\ \A k \in (d + 1)..(y - 1) : text[k] \in Whitespace \cup {"+"}
       /\ Cardinality({k \in (d + 1)..(y - 1) : text[k] = "+"}) <= 1

\* ContextValidator._validate_experience_context
_validate_experience_context(context, original_data, query) ==
  LET query_lower == lower(query)
      context_text == context_text_of(context)
      experience_found ==
        \/ years_pattern_found(context_text)
        \/ any_in(experience_words, lower(context_text))
  IN issue_if(any_in({<<"e","x","p","e","r","i","e","n","c","e">>, <<"y","e","a","r","s">>, <<"h","o","w"," ","l","o","n","g">>, <<"l","e","v","e","l">>}, query_lower)
                /\ ~experience_found,
              ValidationIssue("warning", "missing_context",
                <<"Q","u","e","r","y"," ","a","s","k","s"," ","a","b","o","u","t"," ","e","x","p","e","r","i","e","n","c","e"," ","b","u","t"," ","n","o"," ","e","x","p","e","r","i","e","n","c","e"," ","i","n","d","i","c","a","t","o","r","s"," ","f","o","u","n","d"," ","i","n"," ","c","o","n","t","e","x","t">>,
                <<"I","n","c","l","u","d","e"," ","e","x","p","e","r","i","e","n","c","e"," ","l","e","v","e","l","s"," ","o","r"," ","y","e","a","r","s"," ","o","f"," ","e","x","p","e","r","i","e","n","c","e">>))

\* ContextValidator._validate_project_context
_validate_project_context(context, original_data, query) ==
  LET query_lower == lower(query) IN
  IF "projects" \notin DOMAIN context THEN <<>>
  ELSE LET projects_text_lower == lower(context["projects"]) IN
       issue_if(any_in({<<"r","o","l","e">>, <<"r","e","s","p","o","n","s","i","b","i","l","i","t","y">>, <<"d","i","d">>, <<"l","e","d">>, <<"m","a","n","a","g","e","d">>},
                       query_lower)
                  /\ ~any_in(role_indicators, projects_text_lower),
                ValidationIssue("info", "missing_context",
                  <<"Q","u","e","r","y"," ","a","s","k","s"," ","a","b","o","u","t"," ","r","o","l","e","s"," ","b","u","t"," ","p","r","o","j","e","c","t"," ","c","o","n","t","e","x","t"," ","l","a","c","k","s"," ","r","o","l","e"," ","i","n","f","o","r","m","a","t","i","o","n">>,
                  <<"I","n","c","l","u","d","e"," ","s","p","e","c","i","f","i","c"," ","r","o","l","e","s"," ","a","n","d"," ","r","e","s","p","o","n","s","i","b","i","l","i","t","i","e","s"," ","i","n"," ","p","r","o","j","e","c","t"," ","c","o","n","t","e","x","t">>))
       \o issue_if(any_in({<<"t","e","c","h","n","o","l","o","g","y">>, <<"t","e","c","h">>, <<"s","t","a","c","k">>, <<"u","s","e","d">>, <<"b","u","i","l","t"," ","w","i","t","h">>},
                          query_lower)
                  /\ ~any_in({<<"t","e","c","h","n","o","l","o","g","i","e","s",":">>, <<"t","e","c","h",":">>, <<"b","u","i","l","t"," ","w","i","t","h">>, <<"u","s","i","n","g">>,
                              <<"s","t","a","c","k",":">>}, projects_text_lower),
                ValidationIssue("info", "missing_context",
                  <<"Q","u","e","r","y"," ","a","s","k","s"," ","a","b","o","u","t"," ","t","e","c","h","n","o","l","o","g","i","e","s"," ","b","u","t"," ","p","r","o","j","e","c","t"," ","c","o","n","t","e","x","t"," ","l","a","c","k","s"," ","t","e","c","h","n","i","c","a","l"," ","d","e","t","a","i","l","s">>,
                  <<"I","n","c","l","u","d","e"," ","t","e","c","h","n","o","l","o","g","y"," ","s","t","a","c","k"," ","a","n","d"," ","t","o","o","l","s"," ","u","s","e","d"," ","i","n"," ","p","r","o","j","e","c","t","s">>))

\* the category scores and the quality score are counted in tenths and in
\* thirtieths of 1.0: a category score is 1.0 less whole tenths, and the
\* quality score is the sum of three of them, divided by 3
FullScore == 10

\* the penalty of one issue, in tenths
penalty(issue, critical_penalty) ==
  IF issue.severity = "critical" THEN critical_penalty
  ELSE IF issue.severity = "warning" THEN 2
  ELSE IF issue.severity = "info" THEN 1
  ELSE 0

RECURSIVE penalties(_, _)
penalties(issues, critical_penalty) ==
  IF issues = <<>> THEN 0
  ELSE penalty(Head(issues), critical_penalty)
       + penalties(Tail(issues), critical_penalty)

Max(a, b) == IF a > b THEN a ELSE b

\* ContextValidator._calculate_technical_score, in tenths
validator_technical_score(tech_issues) ==
  Max(FullScore - penalties(tech_issues, 3), 0)

\* ContextValidator._calculate_completeness_score, in tenths
_calculate_completeness_score(completeness_issues) ==
  Max(FullScore - penalties(completeness_issues, 4), 0)

\* ContextValidator._calculate_consistency_score, in tenths
_calculate_consistency_score(consistency_issues) ==
  Max(FullScore - penalties(consistency_issues, 3), 0)

\* ContextValidator._determine_quality_level, of a score in thirtieths
_determine_quality_level(score) ==
  IF score >= 27 THEN "excellent"
  ELSE IF score >= 21 THEN "good"
  ELSE IF score >= 15 THEN "fair"
  ELSE "poor"

\* ContextValidator.validate_context: the report without its suggestions,
\* which no operation here reads. quality_score is in thirtieths, the three
\* category scores are in tenths
validate_context(formatted_context, original_data, query, iteration) ==
  LET tech_issues == _validate_technical_accuracy(formatted_context, original_data, query)
      completeness_issues == _validate_completeness(formatted_context, original_data, query)
      consistency_issues == _validate_consistency(formatted_context, iteration)
      experience_issues == _validate_experience_context(formatted_context, original_data, query)
      project_issues == _validate_project_context(formatted_context, original_data, query)
      technical_accuracy_score == validator_technical_score(tech_issues)
      completeness_score == _calculate_completeness_score(completeness_issues)
      consistency_score == _calculate_consistency_score(consistency_issues)
      avg_score == technical_accuracy_score + completeness_score + consistency_score
  IN [overall_quality |-> _determine_quality_level(avg_score),
      quality_score |-> avg_score,
      issues |-> tech_issues \o completeness_issues \o consistency_issues
                   \o experience_issues \o project_issues,
      technical_accuracy_score |-> technical_accuracy_score,
      completeness_score |-> completeness_score,
      consistency_score |-> consistency_score]

\* dict with one key set
context_set(context, key, text) ==
  [k \in DOMAIN context \cup {key} |-> IF k = key THEN text ELSE context[k]]

\* 'key' not in fixed_context or not fixed_context['key']
section_empty(context, key) == key \notin DOMAIN context \/ context[key] = <<>>

\* lines 408-417: the fragment made of the first project
project_fragment(original_data) ==
  LET project == original_data.projects[1] IN
  <<"P","r","o","j","e","c","t",":"," ">> \o project.domain \o <<" ","-"," ","T","e","c","h","n","o","l","o","g","i","e","s",":"," ">>
    \o join(<<","," ">>, take(project.related_skills, 3))

\* lines 425-429: the categories that have skills
categories_with_skills(original_data) ==
  SelectSeq(original_data.technical_skills,
            LAMBDA entry : entry.skill_list # <<>>)

skills_fragment(original_data) ==
  LET entry == categories_with_skills(original_data)[1] IN
  entry.category \o <<":"," ">> \o join(<<","," ">>, take(entry.skill_list, 3))

\* a repair that adds its fragment to the section whether or not the section
\* is empty
fix_one_appending(fixed_context, issue, original_data) ==
  IF issue.category # "missing_context" THEN fixed_context
  ELSE IF str_in(<<"p","r","o","j","e","c","t">>, lower(issue.message)) /\ original_data.projects # <<>>
  THEN context_set(fixed_context, "projects",
                   context_get(fixed_context, "projects")
                     \o project_fragment(original_data))
  ELSE IF str_in(<<"s","k","i","l","l">>, lower(issue.message))
          /\ original_data.technical_skills # <<>>
          /\ categories_with_skills(original_data) # <<>>
  THEN context_set(fixed_context, "skills",
                   context_get(fixed_context, "skills")
                     \o skills_fragment(original_data))
  ELSE fixed_context

\* lines 403-429: what one critical issue does to the context
fix_one(fixed_context, issue, original_data) ==
  IF issue.category # "missing_context" THEN fixed_context
  ELSE IF str_in(<<"p","r","o","j","e","c","t">>, lower(issue.message)) /\ original_data.projects # <<>>
  THEN IF section_empty(fixed_context, "projects")
       THEN context_set(fixed_context, "projects", project_fragment(original_data))
       ELSE fixed_context
  ELSE IF str_in(<<"s","k","i","l","l">>, lower(issue.message))
          /\ original_data.technical_skills # <<>>
  THEN IF section_empty(fixed_context, "skills")
          /\ categories_with_skills(original_data) # <<>>
       THEN context_set(fixed_context, "skills", skills_fragment(original_data))
       ELSE fixed_context
  ELSE fixed_context

RECURSIVE fix_each(_, _, _)
fix_each(fixed_context, critical_issues, original_data) ==
  IF critical_issues = <<>> THEN fixed_context
  ELSE fix_each(fix_one(fixed_context, Head(critical_issues), original_data),
                Tail(critical_issues), original_data)

\* ContextValidator.fix_context_issues
fix_context_issues(context, validation_report, original_data) ==
  fix_each(context,
           SelectSeq(validation_report.issues,
                     LAMBDA issue : issue.severity = "critical"),
           original_data)
\* ------------------------------- contexts, queries and data of the validator
V_profile_short == <<"B","a","c","k","g","r","o","u","n","d",":"," ","A","n","g","u","l","a","r"," ","a","n","d"," ","R","e","a","c","t"," ","d","e","v","e","l","o","p","e","r">>
V_profile_long ==
  <<"n","a","m","e",":"," ","N","i","k","h","i","l"," ","|"," ","c","u","r","r","e","n","t","_","r","o","l","e",":"," ","D","e","v","e","l","o","p","e","r"," ","|"," ","B","a","c","k","g","r","o","u","n","d",":"," ","A","n","g","u","l","a","r"," ","d","e","v","e","l","o","p","e","r"," ","i","n"," ","P","u","n","e">>
V_skills_one == <<"F","r","o","n","t","e","n","d",":"," ","A","n","g","u","l","a","r">>
V_skills_two == <<"F","r","o","n","t","e","n","d",":"," ","A","n","g","u","l","a","r",","," ","T","y","p","e","S","c","r","i","p","t"," ","|"," ","B","a","c","k","e","n","d",":"," ","P","y","t","h","o","n">>
V_projects_blank == <<" "," ">>
V_projects_one == <<"P","r","o","j","e","c","t",":"," ","A","n","g","u","l","a","r"," ","d","a","s","h","b","o","a","r","d"," ","-"," ","T","e","c","h","n","o","l","o","g","i","e","s",":"," ","A","n","g","u","l","a","r",","," ","T","y","p","e","S","c","r","i","p","t">>

\* a context dict of the sections given; Absent leaves the key out
Absent == <<"absent">>

context_of(profile, skills, projects) ==
  LET sections == [key \in {"profile", "skills", "projects"} |->
                     IF key = "profile" THEN profile
                     ELSE IF key = "skills" THEN skills ELSE projects]
  IN [key \in {k \in DOMAIN sections : sections[k] # Absent} |-> sections[key]]

ValidatorContexts ==
  {context_of(profile, skills, projects) :
     profile \in {Absent, V_profile_short, V_profile_long},
     skills \in {Absent, <<>>, V_skills_one, V_skills_two},
     projects \in {Absent, <<>>, V_projects_blank, V_projects_one}}

Q_used_skills == <<"W","h","i","c","h"," ","p","r","o","j","e","c","t"," ","u","s","e","d"," ","m","y"," ","A","n","g","u","l","a","r"," ","a","n","d"," ","R","e","a","c","t"," ","s","k","i","l","l","s","?">>
Q_how_long == <<"H","o","w"," ","l","o","n","g"," ","h","a","v","e"," ","I"," ","l","e","d"," ","f","r","o","n","t","e","n","d"," ","w","o","r","k","?">>
Q_level == <<"m","y"," ","e","x","p","e","r","i","e","n","c","e"," ","l","e","v","e","l">>

ValidatorQueries ==
  {Q_angular_projects, Q_list, Q_chat, Q_used_skills, Q_how_long, Q_level}

SkillsToolsFirst == <<Category(<<"T","o","o","l","s">>, <<>>)>> \o SkillsFrontend

ValidatorData ==
  {KnowledgeBase(<<>>, technical_skills, projects, <<>>) :
     technical_skills \in {<<>>, <<Category(<<"T","o","o","l","s">>, <<>>)>>, SkillsFrontend,
                           SkillsToolsFirst},
     projects \in {<<>>, <<P_dashboard>>, <<P_billing, P_dashboard>>}}

\* a call of validate_context that has returned
Validated(formatted_context, query, validation_report) ==
  [fn |-> "validate_context", context |-> formatted_context, query |-> query,
   validation_report |-> validation_report]

\* a call of fix_context_issues that has returned: its arguments, the context
\* dict it was given as it is after the call (line 395 works on a copy), the
\* dict returned, and what a call on the dict returned gave
Fixed(context, validation_report, original_data, context_after, fixed_context, again) ==
  [fn |-> "fix_context_issues", context |-> context,
   validation_report |-> validation_report, original_data |-> original_data,
   context_after |-> context_after, fixed_context |-> fixed_context,
   again |-> again]

ValidateContext ==
  /\ calc = NoCalc
  /\ \E formatted_context \in ValidatorContexts, query \in ValidatorQueries :
       \E iteration \in iterations_of(missing_in_skills(formatted_context)) :
         calc' = Validated(formatted_context, query,
                           validate_context(formatted_context, <<>>, query, iteration))
  /\ UNCHANGED <<cacheVars, agentVars, vdbVars>>

\* fix_context_issues with a report, on any context and any data
FixContextIssues ==
  /\ calc.fn = "validate_context"
  /\ \E context \in ValidatorContexts, original_data \in ValidatorData :
       \E fixed_context \in {fix_context_issues(context, calc.validation_report,
                                                original_data)} :
         calc' = Fixed(context, calc.validation_report, original_data, context,
                       fixed_context, None)
  /\ UNCHANGED <<cacheVars, agentVars, vdbVars>>

\* fix_context_issues once more, on the dict it returned
FixContextIssuesAgain ==
  /\ calc.fn = "fix_context_issues"
  /\ calc.again = None
  /\ calc' = [calc EXCEPT !.again =
                Some(fix_context_issues(calc.fixed_context, calc.validation_report,
                                        calc.original_data))]
  /\ UNCHANGED <<cacheVars, agentVars, vdbVars>>

RepairNext == ValidateContext \/ FixContextIssues \/ FixContextIssuesAgain

SpecRepair ==
  /\ Init
  /\ [][RepairNext]_vars
\* ---------------------------------------- Agent._generate_llm_response
\* temperatures are counted in hundredths
TemperatureUnit == 100

LlmModel == <<"l","m","s","t","u","d","i","o","-","c","o","m","m","u","n","i","t","y","/","M","e","t","a","-","L","l","a","m","a","-","3",".","1","-","8","B","-","I","n","s","t","r","u","c","t","-","G","G","U","F">>

LlmParams(temperature, max_tokens) ==
  [temperature |-> temperature, max_tokens |-> max_tokens, model |-> LlmModel]

\* base_params of get_llm_parameters_for_type
base_params == LlmParams(50, 200)

\* type_adjustments of get_llm_parameters_for_type
type_adjustments ==
  [profile_analysis |-> LlmParams(40, 250),
   career_suggestions |-> LlmParams(60, 220),
   project_ideas |-> LlmParams(70, 250),
   skill_analysis |-> LlmParams(30, 180),
   general_question |-> LlmParams(50, 200),
   search_response |-> LlmParams(20, 150),
   technical_question |-> LlmParams(30, 200),
   project_specific_question |-> LlmParams(40, 220)]

\* PromptTemplates.get_llm_parameters_for_type
get_llm_parameters_for_type(query_type) ==
  IF query_type \in DOMAIN type_adjustments
  THEN type_adjustments[query_type]
  ELSE base_params

\* validation_report['quality_score'] < 0.6, the score being in thirtieths
LowQualityScore == 18

CappedMaxTokens == 150

\* a parameter set that leaves the poor-quality branch alone
adjust_for_quality_never(llm_params, validation_report) == llm_params

\* lines 247-250: the parameters after the adjustment to the context quality
adjust_for_quality(llm_params, validation_report) ==
  IF validation_report.quality_score < LowQualityScore
  THEN [llm_params EXCEPT !.temperature = (@ * 8) \div 10,
                          !.max_tokens = Min(@, CappedMaxTokens)]
  ELSE llm_params

ProfileReact == <<Field(<<"p","r","o","f","i","l","e","_","s","u","m","m","a","r","y">>, <<"A","n","g","u","l","a","r"," ","a","n","d"," ","R","e","a","c","t"," ","d","e","v","e","l","o","p","e","r">>)>>

GenerateData ==
  {KnowledgeBase(user_profile, technical_skills, projects, <<>>) :
     user_profile \in {<<>>, ProfileFull, ProfileReact},
     technical_skills \in {<<>>, SkillsFrontend},
     projects \in {<<>>, <<P_dashboard>>}}

Q_what_skills == <<"W","h","a","t"," ","s","k","i","l","l","s"," ","d","o","e","s"," ","m","y"," ","A","n","g","u","l","a","r"," ","R","e","a","c","t"," ","p","r","o","j","e","c","t"," ","n","e","e","d","?">>
Q_recommend == <<"R","e","c","o","m","m","e","n","d"," ","a"," ","r","o","l","e"," ","f","o","r"," ","m","y"," ","A","n","g","u","l","a","r"," ","a","n","d"," ","R","e","a","c","t"," ","p","r","o","j","e","c","t"," ","s","k","i","l","l","s">>

GenerateQuestions ==
  {Q_used_skills, Q_what_skills, Q_recommend, Q_angular_projects, Q_analyze,
   Q_list, Q_level, Q_chat}

\* context.get("search_results", []): nothing found, or the strings that
\* optimize_search_results made
SearchResultLists ==
  {<<>>, <<<<"[","P","r","o","j","e","c","t","s","]"," ","P","r","o","j","e","c","t",":"," ","A","n","g","u","l","a","r"," ","d","a","s","h","b","o","a","r","d">>>>}

\* _generate_llm_response at the call of the LLM client, or at the exception
\* that kept it from the call
Generating(question, search_results, enhanced_context, validation_report, query_type, llm_params, called) ==
  [fn |-> "_generate_llm_response", question |-> question,
   search_results |-> search_results, enhanced_context |-> enhanced_context,
   validation_report |-> validation_report, query_type |-> query_type,
   llm_params |-> llm_params, called |-> called]

NoReport == [quality_score |-> 0, issues |-> <<>>]

\* line 215: build_context on the data loaded
GenerateBuildContext ==
  /\ calc = NoCalc
  /\ \E kb \in GenerateData, question \in GenerateQuestions :
       build_context(kb, question, None)
  /\ UNCHANGED <<cacheVars, agentVars, vdbVars>>

\* lines 216-258, after build_context has returned. With search results the
\* context dict holds a list, and validate_context raises TypeError at
\* ' '.join(context.values()) (line 373): the LLM client is not called
GenerateLlmCall ==
  /\ calc.fn = "build_context"
  /\ \E search_results \in SearchResultLists :
       IF search_results # <<>>
       THEN calc' = Generating(calc.query, search_results, calc.bundle.context,
                               NoReport, "none", base_params, FALSE)
       ELSE \E iteration \in iterations_of(missing_in_skills(calc.bundle.context)) :
              \E validation_report \in
                   {validate_context(calc.bundle.context, calc.data, calc.query,
                                     iteration)} :
                \E enhanced_context \in
                     {IF \E i \in DOMAIN validation_report.issues :
                           validation_report.issues[i].severity = "critical"
                      THEN fix_context_issues(calc.bundle.context,
                                              validation_report, calc.data)
                      ELSE calc.bundle.context},
                   query_type \in {detect_query_type(calc.query)} :
                  calc' = Generating(calc.query, search_results, enhanced_context,
                            validation_report, query_type,
                            adjust_for_quality(
                              get_llm_parameters_for_type(query_type),
                              validation_report),
                            TRUE)
  /\ UNCHANGED <<cacheVars, agentVars, vdbVars>>

GenerateNext == GenerateBuildContext \/ GenerateLlmCall

SpecGenerate ==
  /\ Init
  /\ [][GenerateNext]_vars
\* --------------------------------------- the VectorDB and its two files
\* how a save_index call can end: both files written; an exception before
\* the index file is written; an exception after it, at open() of the
\* metadata file; an exception inside pickle.dump, the metadata file
\* having been truncated. The except clause prints each of them
SaveOutcomes == {"saved", "index_failed", "metadata_failed", "metadata_torn"}

\* VectorDB.save_index: the files after the call
save_index(files, ix, md, outcome) ==
  IF outcome = "saved" THEN Stored(ix, md)
  ELSE IF outcome = "index_failed" THEN files
  ELSE IF outcome = "metadata_failed" THEN [files EXCEPT !.index = ix]
  ELSE [index |-> ix, metadata |-> Torn]

\* VectorDB.__init__ with load_index: a file that is not there leaves the
\* empty index (the empty list) of lines 27-28, and an exception of
\* pickle.load resets both
load_index(files) ==
  IF files.metadata = Torn THEN Stored(<<>>, <<>>)
  ELSE Stored(files.index, files.metadata)

StoreDocuments ==
  {[key |-> "name", value |-> "Ann"],
   [key |-> "current_role", value |-> "developer"]}

\* the longest index and metadata list an add_documents call is made on
MaxStored == 2

\* a call on a VectorDB that has returned: the call, how its save_index
\* ended, the data of a rebuild, and for a construction the call before it
Store(op, outcome, d, previous) ==
  [fn |-> "VectorDB", op |-> op, outcome |-> outcome, data |-> d,
   previous |-> previous]

NoStore == [op |-> "none", outcome |-> "none", data |-> EmptyProfile]

\* what a later call keeps of the call before it
brief_of(call) ==
  IF call.fn = "VectorDB"
  THEN [op |-> call.op, outcome |-> call.outcome, data |-> call.data]
  ELSE NoStore

\* VectorDB(): a new object over the files that are there
StoreNew ==
  /\ calc = NoCalc \/ (calc.fn = "VectorDB" /\ calc.op # "init")
  /\ index' = load_index(disk).index
  /\ metadata' = load_index(disk).metadata
  /\ calc' = Store("init", "none", EmptyProfile, brief_of(calc))
  /\ UNCHANGED <<cacheVars, agentVars, disk, rb, se>>

\* add_documents([document])
StoreAddDocument ==
  /\ calc.fn = "VectorDB"
  /\ Len(index) < MaxStored
  /\ Len(metadata) < MaxStored
  /\ \E doc \in StoreDocuments, outcome \in SaveOutcomes :
       /\ index' = Append(index, doc)
       /\ metadata' = Append(metadata, doc)
       /\ disk' = save_index(disk, Append(index, doc), Append(metadata, doc),
                             outcome)
       /\ calc' = Store("add_documents", outcome, EmptyProfile, NoStore)
  /\ UNCHANGED <<cacheVars, agentVars, rb, se>>

\* rebuild_from_data(data): lines 101-102, then add_documents with its
\* save_index when there are documents
StoreRebuild ==
  /\ calc.fn = "VectorDB"
  /\ \E name \in Names, current_role \in Roles, outcome \in SaveOutcomes :
       LET documents == documents_of(Profile(name, current_role)) IN
       /\ index' = documents
       /\ metadata' = documents
       /\ disk' = IF documents # <<>>
                  THEN save_index(disk, documents, documents, outcome)
                  ELSE disk
       /\ calc' = Store("rebuild_from_data", outcome,
                        Profile(name, current_role), NoStore)
  /\ UNCHANGED <<cacheVars, agentVars, rb, se>>

StoreNext == StoreNew \/ StoreAddDocument \/ StoreRebuild

SpecStore ==
  /\ Init
  /\ [][StoreNext]_vars
\* ------------------------------- a ResponseCache that holds two entries
\* ResponseCache(max_cache_size=2)
CleanupCacheSize == 2

\* the keys of sorted_entries[:entries_to_remove] for a max_cache_size
oldest_keys_sized(d, size) ==
  IF Len(d) > size
  THEN LET sorted_entries == sorted_by_timestamp(d)
           entries_to_remove == Len(d) - size
       IN {sorted_entries[i].key : i \in 1..entries_to_remove}
  ELSE {}

\* _cleanup_cache of a ResponseCache with that max_cache_size
_cleanup_cache_sized(d, current_time, size) ==
  LET live == SelectSeq(d, LAMBDA e : e.key \notin expired_keys(d, current_time))
  IN SelectSeq(live, LAMBDA e : e.key \notin oldest_keys_sized(live, size))

\* cache_response of a ResponseCache with that max_cache_size
cache_response_sized(d, current_time, question, query_type, response, context_summary, size) ==
  IF ~CacheableOf[question, query_type]
  THEN Result(d, "not_cacheable", None, 0)
  ELSE IF RejectedOf[response]
  THEN Result(d, "rejected_response", None, 0)
  ELSE LET filled == stored(d, current_time, question, query_type, response,
                            context_summary)
           live == SelectSeq(filled, LAMBDA e :
                               e.key \notin expired_keys(filled, current_time))
       IN Result(_cleanup_cache_sized(filled, current_time, size), "stored",
                 None, Cardinality(oldest_keys_sized(live, size)))

CleanupGet ==
  \E question \in EntryQuestions, query_type \in EntryTypes, cs \in ContextSummaries :
    LET res == get_cached_response(cache, clock, question, query_type, cs) IN
    /\ \A e \in dict_entries(res.cache) : e.hit_count <= MaxHits
    /\ cache' = res.cache
    /\ ret' = Call("get", res)
    /\ UNCHANGED <<clock, watched, th>>
    /\ UNCHANGED <<agentVars, calcVars, vdbVars>>

CleanupPut ==
  \E question \in EntryQuestions, query_type \in EntryTypes,
     response \in EntryResponses, cs \in ContextSummaries :
    LET res == cache_response_sized(cache, clock, question, query_type,
                                    response, cs, CleanupCacheSize) IN
    /\ cache' = res.cache
    /\ ret' = Call("put", res)
    /\ UNCHANGED <<clock, watched, th>>
    /\ UNCHANGED <<agentVars, calcVars, vdbVars>>

CleanupNext ==
  \/ CleanupGet
  \/ CleanupPut
  \/ Tick

SpecCleanup == Init /\ [][CleanupNext]_vars

\* ===================================================================
\* Claims about the response cache (SpecCache). Each is stated of every call
\* that can be made on a reachable cache.
\* ===================================================================
\* the entries whose TTL has not elapsed
Unexpired == {e \in dict_entries(cache) : clock - e.timestamp < cache_ttl}

\* what C1 expects of the get just made for the watched key
C1_Expected ==
  IF clock - watched.at < cache_ttl THEN Some(watched.response) ELSE None

\* C1 as stated: cache_response(q,t,r,f) followed by get_cached_response(q,t,f)
\* returns r as long as the TTL has not elapsed since the put and no
\* invalidate or overwrite of that key happened in between, and returns None
\* once the TTL has elapsed.
C1_RoundTripAsStated ==
  (watched.active /\ watched.got # <<>>) => watched.got = <<C1_Expected>>

\* C1 amended: the same, provided also that the size cap did not evict the
\* entry in between (no cache_response of another key into a full cache).
C1_RoundTrip ==
  (watched.active /\ watched.got # <<>> /\ ~watched.evicted)
    => watched.got = <<C1_Expected>>

\* a get answered with the watched response half a TTL after its put
C1_Witness ==
  /\ watched.active
  /\ ~watched.evicted
  /\ watched.at < clock
  /\ watched.got = <<Some(watched.response)>>

\* a get for the watched key answered None once the TTL has elapsed
C1_WitnessExpired ==
  /\ watched.active
  /\ clock - watched.at >= cache_ttl
  /\ watched.got = <<None>>

C9_FailsARule(question, query_type) ==
  \/ query_type \notin cacheable_types
  \/ /\ query_type = "general_question"
     /\ ~\E k \in profile_keywords : str_in(k, lower(question))
  \/ \E k \in non_cacheable_keywords : str_in(k, lower(question))
  \/ Len(strip(question)) < MinQuestionLen
  \/ Len(strip(question)) > MaxQuestionLen

C9_Fails ==
  [q \in Questions, t \in QueryTypes |-> C9_FailsARule(q, t)] @@ <<>>

\* the responses C10 lists as never cached
C10_Bad(response) ==
  \/ Len(response) < MinResponseLen
  \/ str_in(STR_error, lower(response))
  \/ startswith(lower(response), STR_sorry)

C10_BadOf == [r \in Responses |-> C10_Bad(r)] @@ <<>>

\* C9: a question that fails a cacheability rule is never stored by
\* cache_response and never answered by get_cached_response (both leave the
\* cache unchanged and get returns None); a question that passes all rules is
\* stored (with a cacheable response) and answered (from an unexpired entry).
C9_CacheabilityRules ==
  /\ \A q \in Questions, t \in QueryTypes, cs \in ContextSummaries :
       LET res == get_cached_response(cache, clock, q, t, cs) IN
       IF C9_Fails[q, t]
       THEN res.cache = cache /\ res.value = None
       ELSE \A e \in Unexpired :
              e.key = _generate_cache_key(q, t, cs) => res.value = Some(e.response)
  /\ \A q \in Questions, t \in QueryTypes, r \in Responses, cs \in ContextSummaries :
       LET res == cache_response(cache, clock, q, t, r, cs) IN
       IF C9_Fails[q, t]
       THEN res.cache = cache
       ELSE (~C10_BadOf[r] /\ Len(strip(r)) >= MinResponseLen)
            => \E e \in dict_entries(res.cache) :
                 e.key = _generate_cache_key(q, t, cs) /\ e.response = r

\* a get refused for its question while the cache holds an entry
C9_Witness ==
  /\ ret.op = "get"
  /\ ret.path = "not_cacheable"
  /\ cache # <<>>

C2_SameQuestionTwice ==
  /\ last.op = "ask_question"
  /\ asks # <<>>
  /\ last.question = asks[1].question
  /\ last.at - asks[1].at < cache_ttl

\* what C2 promises of the second call
C2_SecondIsCached ==
  /\ last.cached
  /\ last.response = asks[1].response
  /\ last.llm_calls = 0
  /\ asks[1].llm_calls + last.llm_calls <= 1

\* C2 as stated: when ask_question is called twice with the identical question
\* within the TTL and the profile is unchanged between the calls, the second
\* call returns the first call's response with cached=true and issues no
\* further LLM call.
C2_SecondCallCachedAsStated == C2_SameQuestionTwice => C2_SecondIsCached

\* C2 amended: the same, provided the question passes the cacheability rules
\* for its detected query type, and the first call got its response from the
\* LLM (it was not itself answered from an older entry) and that response is
\* one cache_response stores.
C2_SecondCallCached ==
  (/\ C2_SameQuestionTwice
   /\ CacheableOf[asks[1].question, DetectedOf[asks[1].question]]
   /\ ~asks[1].cached
   /\ ~RejectedOf[asks[1].response])
    => C2_SecondIsCached

\* the same cacheable question asked again half a TTL later, answered from
\* the cache
C2_Witness ==
  /\ C2_SameQuestionTwice
  /\ CacheableOf[asks[1].question, DetectedOf[asks[1].question]]
  /\ ~asks[1].cached
  /\ ~RejectedOf[asks[1].response]
  /\ asks[1].at < last.at
  /\ last.cached

\* C3: after every profile mutation saved through save_data, the response
\* cache of the agent that answers questions is empty and the index that
\* agent searches holds the documents of the new profile.
C3_SaveClearsCacheAndRebuilds ==
  last.op = "save_data"
    => /\ cache = <<>>
       /\ index = documents_of(data)
       /\ metadata = documents_of(data)

\* the texts ask_question returns when the LLM call failed
FailureTexts == {trouble_response(e) : e \in LLMErrors}

\* C4: an ask_question whose LLM call failed leaves the cache as it was, and
\* no ask_question is answered from the cache with a failure text.
C4_FailureLeavesCacheUnchanged ==
  last.op = "ask_question"
    => /\ last.llm_failed => ~last.cache_changed
       /\ last.cached => last.response \notin FailureTexts

\* C5: an ask_question whose LLM call raised returns success=false and an
\* error field.
C5_FailureReported ==
  (last.op = "ask_question" /\ last.llm_failed)
    => (~last.success /\ last.error)

\* C6: a search that runs concurrently with rebuild_from_data ends without
\* raising and returns what a search of the complete pre-rebuild index or of
\* the complete post-rebuild index returns.
C6_SearchSeesCompleteIndex ==
  se.pc = "done"
    => /\ ~se.raised
       /\ \E v \in se.views :
            search_returned = search(v.index, v.metadata, Query, top_k)

\* the response the threads store for a key
ThreadResponseOf(key) ==
  {c.response : c \in {x \in ThreadCalls :
     _generate_cache_key(x.question, x.query_type, ThreadContext) = key}}

\* C7: under any interleaving of get_cached_response, cache_response and
\* invalidate_cache calls on one ResponseCache, every call completes without
\* raising, and a get returns None or a response that was stored for exactly
\* its key.
C7_CallsSerialized ==
  \A t \in Threads :
    /\ th[t].raised = ""
    /\ (th[t].pc = "done" /\ th[t].op = "get" /\ th[t].value # None)
         => th[t].value[1] \in ThreadResponseOf(th[t].key)

\* C11: two questions that differ only in letter case, in occurrences of the
\* listed filler phrases, in '?' and '.', or in runs of whitespace have the
\* same cache key for the same query type and fingerprint; "Can you list my
\* skills?" and "list my skills" are such a pair.
C11_PhrasingsShareKey ==
  calc.fn = "_generate_cache_key" => calc.key = calc.variant_key

\* d without its i-th entry
C12_Without(d, i) == SubSeq(d, 1, i - 1) \o SubSeq(d, i + 1, Len(d))

\* what C12 says of a get_cached_response call on the cache
C12_GetFrame ==
  \A q \in EntryQuestions, t \in EntryTypes, cs \in ContextSummaries :
    LET res == get_cached_response(cache, clock, q, t, cs)
        mine == IF CacheableOf[q, t]
                THEN {i \in DOMAIN cache :
                        cache[i].key = _generate_cache_key(q, t, cs)}
                ELSE {}
    IN IF res.value # None
       THEN \E i \in mine :
              /\ Len(res.cache) = Len(cache)
              /\ res.cache[i].hit_count = cache[i].hit_count + 1
              /\ res.cache[i].key = cache[i].key
              /\ res.cache[i].response = cache[i].response
              /\ res.cache[i].query_type = cache[i].query_type
              /\ res.cache[i].timestamp = cache[i].timestamp
              /\ \A j \in DOMAIN cache : j # i => res.cache[j] = cache[j]
       ELSE IF \E i \in mine : clock - cache[i].timestamp >= cache_ttl
       THEN \E i \in mine : res.cache = C12_Without(cache, i)
       ELSE res.cache = cache

\* the entries of the cache that a cache_response call leaves in it
C12_Kept(res) ==
  {<<e, f>> \in dict_entries(cache) \X dict_entries(res.cache) : e.key = f.key}

C13_SearchBounded ==
  (calc.fn = "search" /\ calc.top_k > 0) =>
    /\ Len(calc.results) <= Min(calc.top_k, Len(calc.index))
    /\ \A i \in DOMAIN calc.results :
         /\ calc.results[i].score >= score_threshold
         /\ calc.results[i].score = similarity(Query, calc.results[i].metadata)
         /\ \A j \in DOMAIN calc.results :
              i < j => calc.results[i].score >= calc.results[j].score
    /\ (calc.top_k = 3 /\ Len(calc.index) = 1) =>
         /\ Len(calc.results) <= 1
         /\ similarity(Query, calc.index[1]) < score_threshold
              => calc.results = <<>>

\* top_k 3 over one record below the threshold returned nothing
C13_Witness ==
  /\ calc.fn = "search"
  /\ calc.top_k = 3
  /\ Len(calc.index) = 1
  /\ similarity(Query, calc.index[1]) < score_threshold
  /\ calc.results = <<>>

\* C14: after any save_index call, failed or not, the index file and the
\* metadata file describe the same records: both as before the call or both
\* as in memory; after a failed call the files are as before the call, and
\* the VectorDB in memory keeps the added documents.
C14_SaveAtomic ==
  (calc.fn = "save_index" /\ calc.pc = "returned") =>
    /\ disk = calc.prior \/ disk = Stored(index, metadata)
    /\ calc.failed => disk = calc.prior
    /\ Stored(index, metadata) = calc.memory

\* C15: when the embedding call fails during add_documents or
\* rebuild_from_data, the call raises to its caller and the index and the
\* metadata in memory are what they were before the call.
C15_EmbeddingFailureLeavesIndex ==
  (calc.fn \in {"add_documents", "rebuild_from_data"} /\ calc.encode_raised) =>
    /\ calc.raised
    /\ Stored(index, metadata) = calc.before

\* C16: every ContextItem that score_context_items returns has its
\* relevance_score, its technical_score and its project_score within [0, 1],
\* the skill items and the project items after their boosts included.
C16_ScoresInUnitInterval ==
  calc.fn = "score_context_items" =>
    \A i \in DOMAIN calc.items :
      /\ calc.items[i].relevance_score \in 0..ScoreUnit
      /\ calc.items[i].technical_score \in 0..ScoreUnit
      /\ calc.items[i].project_score \in 0..ScoreUnit

\* C17, as stated: for a fixed content and fixed technical terms, the
\* relevance score of a query whose words include those of another query is
\* at least the score of that other query.
C17_MoreWordsNeverLowerAsStated ==
  (calc.fn = "_calculate_relevance_score"
   /\ calc.query_words \subseteq calc.more_words)
    => calc.more_score >= calc.score

\* C17, amended: the same, when every added query word occurs in the content.
C17_MoreMatchedWordsNeverLower ==
  (/\ calc.fn = "_calculate_relevance_score"
   /\ calc.query_words \subseteq calc.more_words
   /\ calc.more_words \ calc.query_words \subseteq words_of(lower(calc.content)))
    => calc.more_score >= calc.score

\* a query with an unmatched word gains a matched word and scores higher
C17_Witness ==
  /\ calc.fn = "_calculate_relevance_score"
  /\ calc.query_words # {}
  /\ calc.query_words # calc.more_words
  /\ calc.query_words \subseteq calc.more_words
  /\ calc.more_words \ calc.query_words \subseteq words_of(lower(calc.content))
  /\ ~(calc.query_words \subseteq words_of(lower(calc.content)))
  /\ calc.more_score > calc.score

\* the place an item has in the order in which the items were made
C18_Made(item) == CHOOSE k \in DOMAIN calc.enumerated : calc.enumerated[k] = item

C19_ItemCountCapped ==
  calc.fn = "build_context" =>
    /\ calc.bundle.items_used = Len(calc.selected_items)
    /\ Len(calc.selected_items) <= Min(calc.level.max_items + 2, 12)
    /\ calc.validation_result.missing_critical_info = <<>>
         => Len(calc.selected_items) <= calc.level.max_items

\* both categories were flagged, and the backfill took the item count past
\* the level's max_items up to the limit
C19_Witness ==
  /\ calc.fn = "build_context"
  /\ Len(calc.validation_result.missing_critical_info) = 2
  /\ Len(calc.selected_items) = calc.level.max_items + 2

\* no category was flagged and more items passed the level's threshold than
\* the level holds
C19_WitnessUnflagged ==
  /\ calc.fn = "build_context"
  /\ calc.validation_result.missing_critical_info = <<>>
  /\ Len(calc.selected_items) = calc.level.max_items
  /\ Len(SelectSeq(calc.all_context_items,
           LAMBDA item : item.relevance_score >= calc.level.min_score_threshold))
       > calc.level.max_items

\* C20: a query with a detected technical-detail need is built at level
\* technical_deep, and a query with a detected project-detail need and no
\* technical-detail need is built at level project_focused, whatever its
\* wording was classified as.
C20_NeedsForceLevel ==
  calc.fn = "build_context" =>
    LET requirements == calc.bundle.requirements IN
    /\ requirements.needs_technical_detail
         => /\ requirements.complexity_level = "technical_deep"
            /\ calc.bundle.context_level = "technical_deep"
    /\ (requirements.needs_project_detail /\ ~requirements.needs_technical_detail)
         => /\ requirements.complexity_level = "project_focused"
            /\ calc.bundle.context_level = "project_focused"

\* the build_context call of the scenario: the query "What Angular projects
\* have I worked on?" over the one project "Angular dashboard" and the
\* skills Frontend: Angular, TypeScript
C21_Scenario ==
  /\ calc.fn = "build_context"
  /\ calc.query = Q_angular_projects
  /\ calc.data.projects = <<P_dashboard>>
  /\ calc.data.technical_skills = SkillsFrontend

\* the critical issues that validate_context reports for the bundle's context
C21_CriticalIssues ==
  UNION {LET report == validate_context(calc.bundle.context, calc.data,
                                        calc.query, iteration)
         IN {report.issues[i] : i \in {k \in DOMAIN report.issues :
                                         report.issues[k].severity = "critical"}} :
         iteration \in iterations_of(missing_in_skills(calc.bundle.context))}

\* C21: for "What Angular projects have I worked on?" over the one project
\* "Angular dashboard" (related skills Angular, TypeScript) and the skills
\* Frontend: Angular, TypeScript, the level is project_focused, the project
\* item is selected with project_score > 0.3, has_project_context is true
\* and the validation reports no critical issue.
C21_AngularScenario ==
  C21_Scenario =>
    /\ calc.bundle.context_level = "project_focused"
    /\ \E i \in DOMAIN calc.selected_items :
         /\ calc.selected_items[i].source = "projects"
         /\ calc.selected_items[i].project_score > tenths(3)
    /\ calc.validation_result.has_project_context
    /\ C21_CriticalIssues = {}

\* the critical issues of the report that fix_context_issues was given
C22_CriticalIssues ==
  SelectSeq(calc.validation_report.issues,
            LAMBDA issue : issue.severity = "critical")

\* a critical issue of the report names the section
C22_Named(key) ==
  \E i \in DOMAIN C22_CriticalIssues :
    /\ key = "projects" => str_in(<<"p","r","o","j","e","c","t">>,
                                  lower(C22_CriticalIssues[i].message))
    /\ key = "skills" => str_in(<<"s","k","i","l","l">>,
                                lower(C22_CriticalIssues[i].message))
    /\ key \in {"projects", "skills"}

\* C22: fix_context_issues applied to its own result with the same report
\* and data returns that result; it changes only sections that were empty
\* or absent and that a critical issue names, keeps every other section,
\* leaves the dict it was given as it was, and returns a dict equal to the
\* one given when the report has no critical issue.
C22_RepairIdempotentAndConfined ==
  calc.fn = "fix_context_issues" =>
    /\ calc.again # None => calc.again = Some(calc.fixed_context)
    /\ DOMAIN calc.context \subseteq DOMAIN calc.fixed_context
    /\ \A key \in DOMAIN calc.fixed_context :
         \/ key \in DOMAIN calc.context
              /\ calc.fixed_context[key] = calc.context[key]
         \/ section_empty(calc.context, key) /\ C22_Named(key)
    /\ calc.context_after = calc.context
    /\ C22_CriticalIssues = <<>> => calc.fixed_context = calc.context

\* a repair that filled both the projects and the skills section, and was
\* then applied to its result
C22_Witness ==
  /\ calc.fn = "fix_context_issues"
  /\ calc.again # None
  /\ section_empty(calc.context, "projects")
  /\ section_empty(calc.context, "skills")
  /\ ~section_empty(calc.fixed_context, "projects")
  /\ ~section_empty(calc.fixed_context, "skills")

\* a report with a critical issue whose repair left the context as it was
C22_WitnessUntouched ==
  /\ calc.fn = "fix_context_issues"
  /\ C22_CriticalIssues # <<>>
  /\ calc.context = calc.fixed_context
  /\ "projects" \in DOMAIN calc.context
  /\ calc.context["projects"] = V_projects_blank

\* C23: the temperature and max_tokens of an LLM call are those of the
\* detected query type, except that exactly when the validation's
\* quality_score is below 0.6 the temperature is that times 0.8 and
\* max_tokens is the smaller of that and 150.
C23_ParametersByTypeAndQuality ==
  (calc.fn = "_generate_llm_response" /\ calc.called) =>
    LET fixed == get_llm_parameters_for_type(detect_query_type(calc.question))
        low == calc.validation_report.quality_score * 10 < 6 * 30
    IN /\ calc.query_type = detect_query_type(calc.question)
       /\ low => /\ calc.llm_params.temperature * 10 = fixed.temperature * 8
                 /\ calc.llm_params.max_tokens = Min(fixed.max_tokens, 150)
       /\ ~low => /\ calc.llm_params.temperature = fixed.temperature
                  /\ calc.llm_params.max_tokens = fixed.max_tokens

\* an LLM call after a validation of quality below 0.6, with a max_tokens
\* that the cap lowered
C23_Witness ==
  /\ calc.fn = "_generate_llm_response"
  /\ calc.called
  /\ calc.validation_report.quality_score < 18
  /\ calc.llm_params.max_tokens = 150
  /\ get_llm_parameters_for_type(calc.query_type).max_tokens > 150

\* an LLM call after a validation of quality 0.6 exactly
C23_WitnessBoundary ==
  /\ calc.fn = "_generate_llm_response"
  /\ calc.called
  /\ calc.validation_report.quality_score = 18

\* C24: when the level of a bundle has include_activities false, no item of
\* the final selected set has source 'activities', and every item of the
\* final selected set has a relevance_score of at least the level's
\* min_score_threshold.
C24_FinalSetWithinLevel ==
  calc.fn = "build_context" =>
    /\ ~calc.level.include_activities =>
         \A i \in DOMAIN calc.selected_items :
           calc.selected_items[i].source # "activities"
    /\ \A i \in DOMAIN calc.selected_items :
         calc.selected_items[i].relevance_score >= calc.level.min_score_threshold

\* C28: the final selected items of build_context hold no two items with
\* the same content, whichever categories the backfill added items for.
C28_NoDuplicateContent ==
  calc.fn = "build_context" =>
    \A i, j \in DOMAIN calc.selected_items :
      i # j => calc.selected_items[i].content # calc.selected_items[j].content

\* some item of the final selected items has a technical_score
\* (project_score) above 0.3
C29_FinalHasTechnical ==
  \E i \in DOMAIN calc.selected_items :
    calc.selected_items[i].technical_score > tenths(3)

C29_FinalHasProject ==
  \E i \in DOMAIN calc.selected_items :
    calc.selected_items[i].project_score > tenths(3)

\* the scored items of an axis (a score above 0.2 on it) that are among the
\* final selected items
C29_Candidates(Axis(_)) ==
  {k \in DOMAIN calc.all_context_items :
     /\ Axis(calc.all_context_items[k]) > tenths(2)
     /\ \E i \in DOMAIN calc.selected_items :
          calc.selected_items[i] = calc.all_context_items[k]}

\* the scored items of an axis that _select_context_items did not select
C29_Unselected(Axis(_)) ==
  LET first == _select_context_items(calc.all_context_items, calc.level,
                                     calc.bundle.requirements)
  IN {k \in DOMAIN calc.all_context_items :
        /\ Axis(calc.all_context_items[k]) > tenths(2)
        /\ \A i \in DOMAIN first :
             first[i].content # calc.all_context_items[k].content}

\* C29: the validation_result of the bundle describes the final selected
\* items: has_technical_context (has_project_context) is true exactly when
\* some final item has technical_score (project_score) > 0.3, a category is
\* listed as missing only if the final items still lack it, and a category
\* that was flagged and has an unselected candidate has one of its
\* candidates among the final items.
C29_ValidationDescribesFinalSet ==
  calc.fn = "build_context" =>
    LET result == calc.bundle.validation_result
        technical_score_of(item) == item.technical_score
        project_score_of(item) == item.project_score
    IN /\ result.has_technical_context <=> C29_FinalHasTechnical
       /\ result.has_project_context <=> C29_FinalHasProject
       /\ listed("technical_details", result.missing_critical_info)
            => ~C29_FinalHasTechnical
       /\ listed("project_details", result.missing_critical_info)
            => ~C29_FinalHasProject
       /\ (listed("technical_details", result.missing_critical_info)
           /\ C29_Unselected(technical_score_of) # {})
            => C29_Candidates(technical_score_of) # {}
       /\ (listed("project_details", result.missing_critical_info)
           /\ C29_Unselected(project_score_of) # {})
            => C29_Candidates(project_score_of) # {}

\* C25: after every construction, add_documents and rebuild_from_data that
\* returned, the index holds as many vectors as there are metadata entries,
\* whichever of the two files was there when the VectorDB was constructed.
C25_VectorsMatchMetadata ==
  calc.fn = "VectorDB" => Len(index) = Len(metadata)

\* C26: after rebuild_from_data(data) with a save_index that works, the files
\* hold what the VectorDB holds, which is the documents of data and nothing
\* else, also when data gives no document; and a VectorDB constructed next
\* holds those documents.
C26_RebuildReplacesPersisted ==
  /\ (calc.fn = "VectorDB" /\ calc.op = "rebuild_from_data"
      /\ calc.outcome = "saved") =>
       /\ index = documents_of(calc.data)
       /\ metadata = documents_of(calc.data)
       /\ disk = Stored(index, metadata)
  /\ (calc.fn = "VectorDB" /\ calc.op = "init"
      /\ calc.previous.op = "rebuild_from_data"
      /\ calc.previous.outcome = "saved") =>
       /\ index = documents_of(calc.previous.data)
       /\ metadata = documents_of(calc.previous.data)

\* a rebuild from data with documents, saved, is what the files and a later
\* VectorDB hold
C26_RebuildWithDocuments ==
  /\ (calc.fn = "VectorDB" /\ calc.op = "rebuild_from_data"
      /\ calc.outcome = "saved" /\ documents_of(calc.data) # <<>>) =>
       /\ index = documents_of(calc.data)
       /\ disk = Stored(index, metadata)
  /\ (calc.fn = "VectorDB" /\ calc.op = "init"
      /\ calc.previous.op = "rebuild_from_data"
      /\ calc.previous.outcome = "saved"
      /\ documents_of(calc.previous.data) # <<>>) =>
       /\ index = documents_of(calc.previous.data)
       /\ metadata = index

\* C27: after every cache_response call that stored its entry and ran
\* _cleanup_cache, every entry left in the cache is valid in the sense of
\* get_cached_response, now - timestamp < cache_ttl, an entry whose age is
\* exactly cache_ttl being one that must be gone.
C27_NoExpiredEntryAfterCleanup ==
  (ret.op = "put" /\ ret.path = "stored") =>
    \A e \in dict_entries(cache) : _is_cache_entry_valid(e, clock)

\* what _cleanup_cache does leave: no entry older than cache_ttl
C27_NoOlderThanTtl ==
  (ret.op = "put" /\ ret.path = "stored") =>
    \A e \in dict_entries(cache) : clock - e.timestamp <= cache_ttl

\* with max_cache_size the sized operators are the operators of the cache
C27_SizedAgrees ==
  /\ _cleanup_cache_sized(cache, clock, max_cache_size) = _cleanup_cache(cache, clock)
  /\ \A q \in EntryQuestions, t \in EntryTypes, r \in EntryResponses,
        cs \in ContextSummaries :
       cache_response_sized(cache, clock, q, t, r, cs, max_cache_size)
         = cache_response(cache, clock, q, t, r, cs)

\* the three category scores of a report lie in [0, 1] and quality_score is
\* their mean (scores in tenths, quality_score in thirtieths)
C30_ScoresAndMean ==
  calc.fn = "validate_context" =>
    LET report == calc.validation_report IN
    /\ report.technical_accuracy_score \in 0..FullScore
    /\ report.completeness_score \in 0..FullScore
    /\ report.consistency_score \in 0..FullScore
    /\ report.quality_score = report.technical_accuracy_score
                              + report.completeness_score
                              + report.consistency_score

\* a report is labelled excellent only with a quality_score of 0.9 or more
C30_ExcellentBand ==
  calc.fn = "validate_context" =>
    (calc.validation_report.overall_quality = "excellent"
       => calc.validation_report.quality_score * 10 >= 9 * 3 * FullScore)

\* the report holds a critical or a warning issue
C30_HasCriticalOrWarning ==
  /\ calc.fn = "validate_context"
  /\ \E i \in DOMAIN calc.validation_report.issues :
       calc.validation_report.issues[i].severity \in {"critical", "warning"}

\* C30: every issue of a validation report lowers its quality score: the
\* three category scores lie in [0, 1], quality_score is their mean, a report
\* with a critical or a warning issue from any of the five checks has a
\* quality_score below 1.0, and the label excellent needs 0.9 or more.
C30_EveryIssueLowersQuality ==
  /\ C30_ScoresAndMean
  /\ C30_ExcellentBand
  /\ C30_HasCriticalOrWarning
       => calc.validation_report.quality_score < 3 * FullScore
====
